---- MODULE Spec2Model ----
(***************************************************************************)
(* The sudoku pad's board model (src/src/models/sudoku.ts) and its         *)
(* human-style solver (src/src/models/sudokuSolver.ts) as a state machine. *)
(*                                                                         *)
(* A SudokuState is the array of 81 SudokuCell records.  The Sudoku keeps  *)
(* the current state, the state history and the index into it; every       *)
(* change goes through updateState, whose recipe runs on an immer draft:   *)
(* the new state is recorded only when the recipe modified the draft.      *)
(* The solver keeps two indices of its own beside the board,               *)
(* candidatesForCell and possibleCellsForCandidate, which it mutates in    *)
(* place while a technique runs, whether or not the draft is recorded.     *)
(***************************************************************************)
EXTENDS Integers, Sequences, FiniteSets, TLC

VARIABLES
    state,                      \* Sudoku.state: the current SudokuState (its cells)
    stateHistory,               \* Sudoku.stateHistory
    currentStateIndex,          \* Sudoku.currentStateIndex (0-based, as in the source)
    candidatesForCell,          \* SudokuSolver.candidatesForCell: Map cell -> Set of digits
    possibleCellsForCandidate,  \* SudokuSolver.possibleCellsForCandidate: Map digit -> CellSet
    lastOp,                     \* the operation that ran last, what it did, and its number
    edits,                      \* number of pad/keyboard edits and imports made so far
    solveRun,                   \* only solver steps, none of which threw, have run since a
                                \* fillPencilMarks on a board of digits 1..9 without duplicates
    cellSet,                    \* a bit-packed CellSet: its bitset and its cache of values()
    cellMap                     \* a Map-based CellSet: the keys of its Map, in insertion order

\* the pad: the board, its history and the solver
boardVars == <<state, stateHistory, currentStateIndex, candidatesForCell,
               possibleCellsForCandidate, lastOp, edits, solveRun>>

\* the two cell sets
setVars == <<cellSet, cellMap>>

vars == <<boardVars, setVars>>

-----------------------------------------------------------------------------
(* Bounds of the model. *)

\* number of pad/keyboard edits and candidate-string imports in one behaviour
MaxEdits == 1
\* undo(count) and redo(count) are called with count in 1..MaxCount
MaxCount == 1
\* number of operations in one behaviour
MaxOps == 4

-----------------------------------------------------------------------------
(* Cells, digits and houses: SudokuSolver's constructor. *)

Cells == 0 .. 80
Digits == 1 .. 9

\* CellPosition of the cell at idx (Sudoku's constructor): row, column
RowOf(idx) == idx \div 9
ColumnOf(idx) == idx % 9
\* Sudoku.getCellPosition(row, column): the idx of that position
getCellPosition(row, column) == row * 9 + column

\* cellsInBlocks[b], b = 0..8, in the constructor's order (houseX outer, houseY inner)
cellsInBlocks ==
    [b \in 0 .. 8 |->
        { getCellPosition(3 * (b \div 3) + x, 3 * (b % 3) + y) : x \in 0 .. 2, y \in 0 .. 2 }]
cellsInRows == [row \in 0 .. 8 |-> { getCellPosition(row, column) : column \in 0 .. 8 }]
cellsInColumns == [column \in 0 .. 8 |-> { getCellPosition(row, column) : row \in 0 .. 8 }]

\* foreachHouse visits the blocks, then the rows, then the columns: house 1..27
Houses ==
    [h \in 1 .. 27 |->
        IF h <= 9 THEN cellsInBlocks[h - 1]
        ELSE IF h <= 18 THEN cellsInRows[h - 10]
        ELSE cellsInColumns[h - 19]]

\* constrainsOfCell[c]: the block, the row and the column of c (as house numbers)
constrainsOfCell ==
    [c \in Cells |->
        << 1 + (3 * (RowOf(c) \div 3)) + (ColumnOf(c) \div 3), 10 + RowOf(c), 19 + ColumnOf(c) >>]

\* the cells of the three houses of c
HousesUnionOfCell ==
    [c \in Cells |->
        Houses[constrainsOfCell[c][1]] \cup Houses[constrainsOfCell[c][2]]
            \cup Houses[constrainsOfCell[c][3]]]

Peers == [c \in Cells |-> HousesUnionOfCell[c] \ {c}]

-----------------------------------------------------------------------------
(* Small helpers. *)

Min(S) == CHOOSE x \in S : \A y \in S : x <= y

RECURSIVE SumOf(_, _)
\* sum of f[x] over x in S
SumOf(f, S) == IF S = {} THEN 0 ELSE LET x == Min(S) IN f[x] + SumOf(f, S \ {x})

\* the size-k sub-arrays that SudokuSolver.permutations(arr, k) yields, as sets of
\* the (distinct, ascending) elements of arr
RECURSIVE Combinations(_, _)
Combinations(S, k) ==
    IF k = 0 THEN { {} }
    ELSE IF Cardinality(S) < k THEN {}
    ELSE LET x == Min(S)
         IN  { A \cup {x} : A \in Combinations(S \ {x}, k - 1) } \cup Combinations(S \ {x}, k)

\* permutations yields the sub-arrays in lexicographic order of positions: A comes
\* before B when the smallest element in which they differ belongs to A
LexBefore(A, B) == A # B /\ Min((A \ B) \cup (B \ A)) \in A

\* the first of a non-empty set of equal-size combinations, in permutations' order
FirstCombination(SS) == CHOOSE A \in SS : \A B \in SS \ {A} : LexBefore(A, B)

-----------------------------------------------------------------------------
(* SudokuCell.  value is <<>> when undefined and <<v>> when it holds v. *)

Undefined == << >>

NewCell == [isGiven |-> FALSE, value |-> Undefined, candidates |-> {}, pencilMarks |-> {}]

\* SudokuCell.setValue(value): a given cell is left alone
CellSetValue(cell, value) ==
    IF cell.isGiven THEN cell
    ELSE [cell EXCEPT !.value = value, !.candidates = {}, !.pencilMarks = {}]

\* SudokuCell.toggleCandidate(candidate)
CellToggleCandidate(cell, candidate) ==
    IF cell.isGiven THEN cell
    ELSE [cell EXCEPT !.value = Undefined,
                      !.candidates = IF candidate \in @ THEN @ \ {candidate}
                                     ELSE @ \cup {candidate}]

\* SudokuCell.togglePencilMark(pencilMark)
CellTogglePencilMark(cell, pencilMark) ==
    IF cell.isGiven THEN cell
    ELSE [cell EXCEPT !.value = Undefined,
                      !.pencilMarks = IF pencilMark \in @ THEN @ \ {pencilMark}
                                      ELSE @ \cup {pencilMark}]

\* whether a cell holds a value (value !== undefined)
HasValue(cell) == cell.value # Undefined

\* value || 0
ValueOrZero(cell) == IF HasValue(cell) THEN cell.value[1] ELSE 0

-----------------------------------------------------------------------------
(* SudokuSolver: the solver's working context while one technique runs.    *)
(* cells is the immer draft the technique is given, cfc and pcc are the    *)
(* solver's candidatesForCell and possibleCellsForCandidate, and modified  *)
(* tells whether the draft was modified (immer marks a draft modified when *)
(* a Set really loses or gains a member or a field is assigned another     *)
(* value; SudokuCell.setValue always assigns fresh Sets).                  *)

Draft(cells, cfc, pcc) == [cells |-> cells, cfc |-> cfc, pcc |-> pcc, modified |-> FALSE]

\* Map.delete(key)
MapDelete(m, key) == [k \in DOMAIN m \ {key} |-> m[k]]

\* candidatesForCell.get(cell) ?? []
CandidatesOf(cfc, cell) == IF cell \in DOMAIN cfc THEN cfc[cell] ELSE {}

\* possibleCellsForCandidate.get(value), an absent entry read as the empty set
PossibleCells(pcc, value) == IF value \in DOMAIN pcc THEN pcc[value] ELSE {}

\* deleteCandidate toggling the pencil mark: a candidate the cell does not have
\* is added
deleteCandidate_Toggles(x, cell, candidate) ==
    [cells |-> [x.cells EXCEPT ![cell].pencilMarks =
                    IF candidate \in @ THEN @ \ {candidate} ELSE @ \cup {candidate}],
     cfc |-> IF cell \in DOMAIN x.cfc
             THEN [x.cfc EXCEPT ![cell] = @ \ {candidate}]
             ELSE x.cfc,
     pcc |-> IF candidate \in DOMAIN x.pcc
             THEN [x.pcc EXCEPT ![candidate] = @ \ {cell}]
             ELSE x.pcc,
     modified |-> TRUE]

\* SudokuSolver.deleteCandidate(state, cell, candidate)
deleteCandidate(x, cell, candidate) ==
    [cells |-> [x.cells EXCEPT ![cell].pencilMarks = @ \ {candidate}],
     cfc |-> IF cell \in DOMAIN x.cfc
             THEN [x.cfc EXCEPT ![cell] = @ \ {candidate}]
             ELSE x.cfc,
     pcc |-> IF candidate \in DOMAIN x.pcc
             THEN [x.pcc EXCEPT ![candidate] = @ \ {cell}]
             ELSE x.pcc,
     modified |-> x.modified \/ candidate \in x.cells[cell].pencilMarks]

RECURSIVE deleteCandidates(_, _)
\* deleteCandidate for every <<cell, candidate>> of D (the loops of the techniques;
\* the deletions commute, so the order of the loop does not show in the result).
\* y is the context after one deletion, computed once.
deleteCandidates(x, D) ==
    IF D = {} THEN x
    ELSE LET p == CHOOSE q \in D : TRUE
         IN  CHOOSE r \in { deleteCandidates(y, D \ {p}) :
                                y \in { deleteCandidate(x, p[1], p[2]) } } : TRUE


\* setCellValue without the loop over the houses of the cell, so that the peers
\* keep the value among their candidates
setCellValue_KeepsPeers(x, cell, value) ==
    CHOOSE r \in
        { [x2 EXCEPT !.cells[cell] = CellSetValue(@, <<value>>),
                     !.modified = @ \/ ~x2.cells[cell].isGiven] :
            x2 \in { [x1 EXCEPT !.cfc = MapDelete(x1.cfc, cell)] :
                        x1 \in { deleteCandidates(x,
                                    { <<cell, d>> : d \in CandidatesOf(x.cfc, cell) }) } } } :
        TRUE

\* SudokuSolver.setCellValue(state, cell, value): x1 is the context once the
\* cell's own candidates are deleted, x2 once its entry is deleted from
\* candidatesForCell, x3 once the cell has its value
setCellValue(x, cell, value) ==
    CHOOSE r \in
        { deleteCandidates(x3, { <<otherCell, value>> : otherCell \in Peers[cell] }) :
            x3 \in { [x2 EXCEPT !.cells[cell] = CellSetValue(@, <<value>>),
                                !.modified = @ \/ ~x2.cells[cell].isGiven] :
                        x2 \in { [x1 EXCEPT !.cfc = MapDelete(x1.cfc, cell)] :
                                    x1 \in { deleteCandidates(x,
                                                { <<cell, d>> : d \in CandidatesOf(x.cfc, cell) }) } } } } :
        TRUE


\* checkValueIsValid looking at the rows only
checkValueIsValid_RowsOnly(cells) ==
    \A h \in 10 .. 18 :
        \A cell1, cell2 \in Houses[h] :
            (cell1 # cell2 /\ HasValue(cells[cell1]) /\ HasValue(cells[cell2]))
                => cells[cell1].value # cells[cell2].value

\* SudokuSolver.checkValueIsValid(), on the cells of a state
checkValueIsValid(cells) ==
    \A h \in 1 .. 27 :
        \A cell1, cell2 \in Houses[h] :
            (cell1 # cell2 /\ HasValue(cells[cell1]) /\ HasValue(cells[cell2]))
                => cells[cell1].value # cells[cell2].value

-----------------------------------------------------------------------------
(* The techniques.  Each takes the context and returns it after its run.   *)

\* SudokuSolver.fullHouse
fullHouse(x) ==
    LET unfilledCells(h) == { c \in Houses[h] : ~HasValue(x.cells[c]) }
        hs == { h \in 1 .. 27 : Cardinality(unfilledCells(h)) = 1 }
    IN  IF hs = {} THEN x
        ELSE LET h == Min(hs)
                 cell == CHOOSE c \in unfilledCells(h) : TRUE
                 missingValue == 45 - SumOf([c \in Cells |-> ValueOrZero(x.cells[c])], Houses[h])
             IN  setCellValue(x, cell, missingValue)

\* nakedSingle going through the houses and their cells from the last to the first
nakedSingle_LastCell(x) ==
    LET S == { c \in Cells : ~HasValue(x.cells[c]) /\ Cardinality(x.cells[c].pencilMarks) = 1 }
    IN  IF S = {} THEN x
        ELSE LET cell == CHOOSE c \in S : \A o \in S : o <= c
                 value == CHOOSE v \in x.cells[cell].pencilMarks : TRUE
             IN  setCellValue(x, cell, value)

\* SudokuSolver.nakedSingle
nakedSingle(x) ==
    LET S == { c \in Cells : ~HasValue(x.cells[c]) /\ Cardinality(x.cells[c].pencilMarks) = 1 }
        hs == { h \in 1 .. 27 : Houses[h] \cap S # {} }
    IN  IF hs = {} THEN x
        ELSE LET cell == Min(Houses[Min(hs)] \cap S)
                 value == CHOOSE v \in x.cells[cell].pencilMarks : TRUE
             IN  setCellValue(x, cell, value)

\* SudokuSolver.solveHiddenSingle
solveHiddenSingle(x) ==
    LET cellsWithPencilMark(h, value) == PossibleCells(x.pcc, value) \cap Houses[h]
        vs(h) == { value \in Digits : Cardinality(cellsWithPencilMark(h, value)) = 1 }
        hs == { h \in 1 .. 27 : vs(h) # {} }
    IN  IF hs = {} THEN x
        ELSE LET h == Min(hs)
                 value == Min(vs(h))
                 targetCell == CHOOSE c \in cellsWithPencilMark(h, value) : TRUE
             IN  setCellValue(x, targetCell, value)

\* the calls check(houseA, houseB) of LockedCandidatesType in the order it makes
\* them: for each block, check(block, row), check(row, block) for the nine rows,
\* then check(block, column), check(column, block) for the nine columns
LockedCandidatesPairs ==
    [k \in 1 .. 324 |->
        LET block == 1 + ((k - 1) \div 36)
            j == (k - 1) % 36
            line == 10 + (j \div 2)
        IN  IF j % 2 = 0 THEN <<block, line>> ELSE <<line, block>>]

\* LockedCandidatesType deleting the value from every cell of houseB, those of the
\* intersection included
LockedCandidatesType_WholeHouse(x) ==
    LET intersection(k) == Houses[LockedCandidatesPairs[k][1]] \cap Houses[LockedCandidatesPairs[k][2]]
        possibleCellsInA(k, value) ==
            { c \in Houses[LockedCandidatesPairs[k][1]] : value \in x.cells[c].pencilMarks }
        toDelete(k, value) ==
            { c \in Houses[LockedCandidatesPairs[k][2]] \ intersection(k) :
                value \in x.cells[c].pencilMarks }
        vs(k) == { value \in Digits :
                    /\ possibleCellsInA(k, value) # {}
                    /\ possibleCellsInA(k, value) \subseteq intersection(k)
                    /\ toDelete(k, value) # {} }
        ks == { k \in 1 .. 324 : intersection(k) # {} /\ vs(k) # {} }
    IN  IF ks = {} THEN x
        ELSE LET k == Min(ks)
                 value == Min(vs(k))
             IN  deleteCandidates(x, { <<c, value>> :
                        c \in { o \in Houses[LockedCandidatesPairs[k][2]] :
                                    value \in x.cells[o].pencilMarks } })

\* LockedCandidatesType returning after the first candidate it deletes
LockedCandidatesType_FirstCell(x) ==
    LET intersection(k) == Houses[LockedCandidatesPairs[k][1]] \cap Houses[LockedCandidatesPairs[k][2]]
        possibleCellsInA(k, value) ==
            { c \in Houses[LockedCandidatesPairs[k][1]] : value \in x.cells[c].pencilMarks }
        toDelete(k, value) ==
            { c \in Houses[LockedCandidatesPairs[k][2]] \ intersection(k) :
                value \in x.cells[c].pencilMarks }
        vs(k) == { value \in Digits :
                    /\ possibleCellsInA(k, value) # {}
                    /\ possibleCellsInA(k, value) \subseteq intersection(k)
                    /\ toDelete(k, value) # {} }
        ks == { k \in 1 .. 324 : intersection(k) # {} /\ vs(k) # {} }
    IN  IF ks = {} THEN x
        ELSE LET k == Min(ks)
                 value == Min(vs(k))
             IN  deleteCandidate(x, Min(toDelete(k, value)), value)

\* SudokuSolver.LockedCandidatesType
LockedCandidatesType(x) ==
    LET intersection(k) == Houses[LockedCandidatesPairs[k][1]] \cap Houses[LockedCandidatesPairs[k][2]]
        possibleCellsInA(k, value) ==
            { c \in Houses[LockedCandidatesPairs[k][1]] : value \in x.cells[c].pencilMarks }
        toDelete(k, value) ==
            { c \in Houses[LockedCandidatesPairs[k][2]] \ intersection(k) :
                value \in x.cells[c].pencilMarks }
        vs(k) == { value \in Digits :
                    /\ possibleCellsInA(k, value) # {}
                    /\ possibleCellsInA(k, value) \subseteq intersection(k)
                    /\ toDelete(k, value) # {} }
        ks == { k \in 1 .. 324 : intersection(k) # {} /\ vs(k) # {} }
    IN  IF ks = {} THEN x
        ELSE LET k == Min(ks)
                 value == Min(vs(k))
             IN  deleteCandidates(x, { <<c, value>> : c \in toDelete(k, value) })

\* hiddenSubset deleting the other digits from every cell of the house
hiddenSubset_WholeHouse(x) ==
    LET possibleHouseCells(h, value) == PossibleCells(x.pcc, value) \cap Houses[h]
        inSize(h, size) ==
            { value \in Digits :
                /\ possibleHouseCells(h, value) # {}
                /\ Cardinality(possibleHouseCells(h, value)) <= size }
        cellUnion(h, subset) == UNION { possibleHouseCells(h, value) : value \in subset }
        toDelete(h, subset) ==
            { <<c, value>> \in Houses[h] \X Digits :
                value \notin subset /\ value \in x.cells[c].pencilMarks }
        subsets(h, size) ==
            IF Cardinality(inSize(h, size)) < size THEN {}
            ELSE { subset \in Combinations(inSize(h, size), size) :
                     /\ Cardinality(cellUnion(h, subset)) <= size
                     /\ toDelete(h, subset) # {} }
        sizes(h) == { size \in 2 .. 4 : subsets(h, size) # {} }
        hs == { h \in 1 .. 27 : sizes(h) # {} }
    IN  IF hs = {} THEN x
        ELSE LET h == Min(hs)
                 subset == FirstCombination(subsets(h, Min(sizes(h))))
             IN  deleteCandidates(x, toDelete(h, subset))

\* SudokuSolver.hiddenSubset
hiddenSubset(x) ==
    LET possibleHouseCells(h, value) == PossibleCells(x.pcc, value) \cap Houses[h]
        inSize(h, size) ==
            { value \in Digits :
                /\ possibleHouseCells(h, value) # {}
                /\ Cardinality(possibleHouseCells(h, value)) <= size }
        cellUnion(h, subset) == UNION { possibleHouseCells(h, value) : value \in subset }
        toDelete(h, subset) ==
            { <<c, value>> \in cellUnion(h, subset) \X Digits :
                value \notin subset /\ value \in x.cells[c].pencilMarks }
        subsets(h, size) ==
            IF Cardinality(inSize(h, size)) < size THEN {}
            ELSE { subset \in Combinations(inSize(h, size), size) :
                     /\ Cardinality(cellUnion(h, subset)) <= size
                     /\ toDelete(h, subset) # {} }
        sizes(h) == { size \in 2 .. 4 : subsets(h, size) # {} }
        hs == { h \in 1 .. 27 : sizes(h) # {} }
    IN  IF hs = {} THEN x
        ELSE LET h == Min(hs)
                 subset == FirstCombination(subsets(h, Min(sizes(h))))
             IN  deleteCandidates(x, toDelete(h, subset))

\* SudokuSolver.nakedSubset
nakedSubset(x) ==
    LET possibleValues(h, size) ==
            { c \in Houses[h] \cap DOMAIN x.cfc : Cardinality(x.cfc[c]) <= size }
        valueUnion(subset) == UNION { x.cfc[c] : c \in subset }
        \* the other cells of this house and of every house holding all of subset
        otherCells(subset) ==
            UNION { Houses[o] : o \in { o \in 1 .. 27 : subset \subseteq Houses[o] } } \ subset
        toDelete(subset) ==
            { <<c, value>> \in (otherCells(subset) \cap DOMAIN x.cfc) \X valueUnion(subset) :
                value \in x.cfc[c] }
        subsets(h, size) ==
            { subset \in Combinations(possibleValues(h, size), size) :
                /\ Cardinality(valueUnion(subset)) <= size
                /\ toDelete(subset) # {} }
        sizes(h) == { size \in 2 .. 4 : subsets(h, size) # {} }
        hs == { h \in 1 .. 27 : sizes(h) # {} }
    IN  IF hs = {} THEN x
        ELSE LET h == Min(hs)
                 subset == FirstCombination(subsets(h, Min(sizes(h))))
             IN  deleteCandidates(x, toDelete(subset))

-----------------------------------------------------------------------------
(* Fish.  A base set and a cover set are arrays of CellSets, each the cells *)
(* of one house that can still take the digit; the arrays are built in the *)
(* order of a line-up of houses, and permutations() walks their size-n     *)
(* sub-arrays in the order of the positions in the line-up.                *)

RowsLineup == [p \in 1 .. 9 |-> 9 + p]
ColumnsLineup == [p \in 1 .. 9 |-> 18 + p]
\* [...possibleCellsInColumns, ...possibleCellsInBlocks]
ColumnsBlocksLineup == [p \in 1 .. 18 |-> IF p <= 9 THEN 18 + p ELSE p - 9]
\* [...possibleCellsInRows, ...possibleCellsInBlocks]
RowsBlocksLineup == [p \in 1 .. 18 |-> IF p <= 9 THEN 9 + p ELSE p - 9]

\* CellSet.union(...set) of the CellSets at positions A of a line-up
FishCells(P, lineup, A) == P \cap UNION { Houses[lineup[p]] : p \in A }

\* the cells check(baseSet, coverSet) of basicFish deletes the digit from
BasicFishCheck(baseCells, coverCells) ==
    IF baseCells \subseteq coverCells THEN coverCells \ baseCells ELSE {}

\* the finned check taking the digit from every covered cell, whatever the fins
FinnedFishCheck_IgnoresFins(baseCells, coverCells) == coverCells \ baseCells

\* the cells check(baseSet, coverSet) of finnedFish deletes the digit from
FinnedFishCheck(baseCells, coverCells) ==
    LET fins == baseCells \ coverCells
        eliminatedCells == { c \in coverCells : \A fin \in fins : c \in HousesUnionOfCell[fin] }
    IN  eliminatedCells \ baseCells

FishCheck(finned, baseCells, coverCells) ==
    IF finned THEN FinnedFishCheck(baseCells, coverCells)
    ELSE BasicFishCheck(baseCells, coverCells)

\* check(colSet, rowSet) || check(rowSet, colSet): what the first check that
\* changes something deletes
FishCheckBoth(finned, colCells, rowCells) ==
    LET first == FishCheck(finned, colCells, rowCells)
    IN  IF first # {} THEN first ELSE FishCheck(finned, rowCells, colCells)

\* the positions of a line-up whose houses enter the array of CellSets: a house
\* with no cell of P is left out, and with `limit` (basicFish) so is a house
\* with more than `size` cells of P
FishEligible(P, size, lineup, limit) ==
    { p \in DOMAIN lineup :
        /\ P \cap Houses[lineup[p]] # {}
        /\ limit => Cardinality(P \cap Houses[lineup[p]]) <= size }

\* the outer loop taking every sub-array, overlapping CellSets included
FishOuterSets_NoDisjointCheck(P, size, outer, limit, disjoint) ==
    Combinations(FishEligible(P, size, outer, limit), size)

\* the sub-arrays the outer loop examines: permutations(array, size), and with
\* `disjoint` (complex fish) those whose CellSets are not pairwise disjoint
\* are skipped
FishOuterSets(P, size, outer, limit, disjoint) ==
    { A \in Combinations(FishEligible(P, size, outer, limit), size) :
        disjoint =>
            \A p, q \in A :
                p # q => (P \cap Houses[outer[p]]) \cap (P \cap Houses[outer[q]]) = {} }

\* the sub-arrays the inner loop examines
FishInnerSets(P, size, inner, limit) ==
    Combinations(FishEligible(P, size, inner, limit), size)

\* One double loop over the sub-arrays of size `size` of two line-ups, the outer
\* loop over `outer` and the inner over `inner`: the cells the first changing
\* check deletes the digit from, {} when no check changes anything.  P is
\* possibleCellsForCandidate.get(value).
FishSearch(finned, P, size, outer, inner, outerIsColSet, limit, disjoint) ==
    LET outerSets == FishOuterSets(P, size, outer, limit, disjoint)
        innerSets == FishInnerSets(P, size, inner, limit)
        deleted(A, B) ==
            IF outerIsColSet
            THEN FishCheckBoth(finned, FishCells(P, outer, A), FishCells(P, inner, B))
            ELSE FishCheckBoth(finned, FishCells(P, inner, B), FishCells(P, outer, A))
        firing == { A \in outerSets : \E B \in innerSets : deleted(A, B) # {} }
    IN  IF firing = {} THEN {}
        ELSE LET A == FirstCombination(firing)
                 B == FirstCombination({ C \in innerSets : deleted(A, C) # {} })
             IN  deleted(A, B)

\* the loops "for size 2..4, for value 1..9" of the fish techniques, numbered
FishRounds == [k \in 1 .. 27 |-> [size |-> 2 + ((k - 1) \div 9), value |-> 1 + ((k - 1) % 9)]]

\* the first round whose search deletes something, and the deletion made; found[k]
\* is what the search of round k deletes the digit from
FishRun(x, found) ==
    LET ks == { k \in 1 .. 27 : found[k] # {} }
    IN  IF ks = {} THEN x
        ELSE LET k == Min(ks)
             IN  deleteCandidates(x, { <<c, FishRounds[k].value>> : c \in found[k] })

\* SudokuSolver.basicFish
basicFish(x) ==
    LET search(P, size) ==
            FishSearch(FALSE, P, size, ColumnsLineup, RowsLineup, TRUE, TRUE, FALSE)
    IN  FishRun(x, [k \in 1 .. 27 |->
                        search(PossibleCells(x.pcc, FishRounds[k].value), FishRounds[k].size)])

\* SudokuSolver.finnedFish(state, searchComplexFish)
finnedFish(x, searchComplexFish) ==
    LET plain(P, size) ==
            FishSearch(TRUE, P, size, ColumnsLineup, RowsLineup, TRUE, FALSE, FALSE)
        complex(P, size) ==
            LET first == FishSearch(TRUE, P, size, ColumnsBlocksLineup, RowsLineup,
                                    TRUE, FALSE, TRUE)
            IN  IF first # {} THEN first
                ELSE FishSearch(TRUE, P, size, RowsBlocksLineup, ColumnsLineup,
                                FALSE, FALSE, TRUE)
    IN  FishRun(x, [k \in 1 .. 27 |->
                        IF searchComplexFish
                        THEN complex(PossibleCells(x.pcc, FishRounds[k].value), FishRounds[k].size)
                        ELSE plain(PossibleCells(x.pcc, FishRounds[k].value), FishRounds[k].size)])

\* SudokuSolver.complexFish
complexFish(x) == finnedFish(x, TRUE)

-----------------------------------------------------------------------------
(* solveOneStep and fillPencilMarks. *)


\* the array `solvers` with solveHiddenSingle ahead of nakedSingle
solvers_HiddenSingleFirst ==
    << "fullHouse", "solveHiddenSingle", "nakedSingle", "LockedCandidatesType",
       "hiddenSubset", "nakedSubset", "basicFish", "finnedFish", "complexFish" >>

\* the array `solvers` of solveOneStep
solvers ==
    << "fullHouse", "nakedSingle", "solveHiddenSingle", "LockedCandidatesType",
       "hiddenSubset", "nakedSubset", "basicFish", "finnedFish", "complexFish" >>

\* solver.bind(this) applied to the draft
RunSolver(name, x) ==
    CASE name = "fullHouse" -> fullHouse(x)
      [] name = "nakedSingle" -> nakedSingle(x)
      [] name = "solveHiddenSingle" -> solveHiddenSingle(x)
      [] name = "LockedCandidatesType" -> LockedCandidatesType(x)
      [] name = "hiddenSubset" -> hiddenSubset(x)
      [] name = "nakedSubset" -> nakedSubset(x)
      [] name = "basicFish" -> basicFish(x)
      [] name = "finnedFish" -> finnedFish(x, FALSE)
      [] name = "complexFish" -> complexFish(x)

RECURSIVE RunSolvers(_, _, _, _)
\* The loop of solveOneStep from solver i on: each solver runs on a fresh draft of
\* the current state; the first whose draft comes back modified ends the loop.
\* A solver that leaves its draft unmodified may still have changed the solver's
\* two indices, which the next solver then reads.
RunSolvers(i, cells, cfc, pcc) ==
    IF i > Len(solvers) THEN [fired |-> 0, x |-> Draft(cells, cfc, pcc)]
    ELSE CHOOSE r \in
            { IF x.modified THEN [fired |-> i, x |-> x]
              ELSE RunSolvers(i + 1, cells, x.cfc, x.pcc) :
                x \in { RunSolver(solvers[i], Draft(cells, cfc, pcc)) } } : TRUE


\* fillPencilMarks going through the blocks and the rows but not the columns
FilledCandidates_NoColumns(cells) ==
    LET empty == { c \in Cells : ~(cells[c].isGiven \/ HasValue(cells[c])) }
    IN  [c \in empty |->
            Digits \ { cells[o].value[1] :
                        o \in { o \in Houses[constrainsOfCell[c][1]] \cup Houses[constrainsOfCell[c][2]] :
                                    HasValue(cells[o]) } }]

\* the candidates fillPencilMarks computes for the cells without a value
FilledCandidates(cells) ==
    LET empty == { c \in Cells : ~(cells[c].isGiven \/ HasValue(cells[c])) }
    IN  [c \in empty |->
            Digits \ { cells[o].value[1] : o \in { o \in HousesUnionOfCell[c] : HasValue(cells[o]) } }]

-----------------------------------------------------------------------------
(* Strings are sequences of one-character strings. *)

DigitChars == << "0", "1", "2", "3", "4", "5", "6", "7", "8", "9" >>

IsDigitChar(ch) == \E i \in 1 .. 10 : DigitChars[i] = ch

\* the value Number(char) has for a character that is no number: NaN, kept
\* apart from every number a digit character stands for
NaN == -1

\* Number(char): the digit of a digit character, 0 for a blank, NaN otherwise
NumberOf(ch) ==
    IF IsDigitChar(ch) THEN (CHOOSE i \in 1 .. 10 : DigitChars[i] = ch) - 1
    ELSE IF ch = " " THEN 0
    ELSE NaN

\* Sudoku.fromString reading every character but the last one
fromString_SkipsLast(code) ==
    [idx \in Cells |->
        IF idx + 1 < Len(code) /\ code[idx + 1] # "."
        THEN [NewCell EXCEPT !.isGiven = TRUE, !.value = << NumberOf(code[idx + 1]) >>]
        ELSE NewCell]

\* Sudoku.fromString(code): the cells of the new Sudoku's state
fromString(code) ==
    [idx \in Cells |->
        IF idx + 1 <= Len(code) /\ code[idx + 1] # "."
        THEN [NewCell EXCEPT !.isGiven = TRUE, !.value = << NumberOf(code[idx + 1]) >>]
        ELSE NewCell]

RECURSIVE DigitRunsIn(_, _, _)
\* the maximal runs of digit characters of code[lo .. hi], in order; a run that
\* crosses the middle is put together from the last run of the left half and the
\* first run of the right half
DigitRunsIn(code, lo, hi) ==
    IF lo > hi THEN << >>
    ELSE IF lo = hi THEN (IF IsDigitChar(code[lo]) THEN << << code[lo] >> >> ELSE << >>)
    ELSE LET mid == (lo + hi) \div 2
             left == DigitRunsIn(code, lo, mid)
             right == DigitRunsIn(code, mid + 1, hi)
         IN  IF IsDigitChar(code[mid]) /\ IsDigitChar(code[mid + 1])
             THEN SubSeq(left, 1, Len(left) - 1) \o << left[Len(left)] \o right[1] >>
                      \o Tail(right)
             ELSE left \o right

\* the matches of /\d+/g in code (candidatesRegex.exec in a loop), in order: each
\* a sequence of digit characters
DigitRuns(code) == DigitRunsIn(code, 1, Len(code))

\* allCandidates[i].split("").map(Number)
RunDigits(run) == [j \in 1 .. Len(run) |-> NumberOf(run[j])]

SeqRange(seq) == { seq[j] : j \in 1 .. Len(seq) }

\* fromCandidateString without pencilMarks.clear(): the digits of a longer run
\* are added to the pencil marks the cell has
fromCandidateString_AddsMarks(cells, allCandidates) ==
    [i \in Cells |->
        LET candidates == RunDigits(allCandidates[i + 1])
        IN  IF Len(candidates) = 1
            THEN [cells[i] EXCEPT !.isGiven = TRUE, !.value = << candidates[1] >>]
            ELSE [cells[i] EXCEPT !.pencilMarks = @ \cup SeqRange(candidates)]]

\* SudokuState.fromCandidateString(code) on the draft, for 81 runs
fromCandidateString(cells, allCandidates) ==
    [i \in Cells |->
        LET candidates == RunDigits(allCandidates[i + 1])
        IN  IF Len(candidates) = 1
            THEN [cells[i] EXCEPT !.isGiven = TRUE, !.value = << candidates[1] >>]
            ELSE [cells[i] EXCEPT !.pencilMarks = SeqRange(candidates)]]

\* SudokuState.fillFromCandidateString(candidateString) on the draft, for 81 runs
fillFromCandidateString(cells, allCandidates) ==
    [i \in Cells |->
        LET candidates == RunDigits(allCandidates[i + 1])
        IN  IF cells[i].isGiven THEN cells[i]
            ELSE IF HasValue(cells[i]) THEN cells[i]
            ELSE IF Len(candidates) = 1 THEN CellSetValue(cells[i], << candidates[1] >>)
            ELSE [cells[i] EXCEPT !.pencilMarks = SeqRange(candidates)]]

-----------------------------------------------------------------------------
(* The operations. *)

\* what lastOp records of an operation
Did(op, fired, error, changed) ==
    [op |-> op, fired |-> fired, error |-> error, changed |-> changed, n |-> lastOp.n + 1]

\* one more operation may run
MayRun == lastOp.n < MaxOps


\* updateState without the assignment of the new state to this.self.state
Record_KeepsState(newState) ==
    /\ stateHistory' = Append(SubSeq(stateHistory, 1, currentStateIndex + 1), newState)
    /\ currentStateIndex' = currentStateIndex + 1
    /\ state' = state

\* updateState without the slice: the undone states stay in the history
Record_KeepsUndone(newState) ==
    /\ stateHistory' = Append(stateHistory, newState)
    /\ currentStateIndex' = currentStateIndex + 1
    /\ state' = newState

\* the body of Sudoku.updateState once produce returned a new state
Record(newState) ==
    /\ stateHistory' = Append(SubSeq(stateHistory, 1, currentStateIndex + 1), newState)
    /\ currentStateIndex' = currentStateIndex + 1
    /\ state' = newState

\* Sudoku.updateState(_, f): newState is what the recipe made of the draft and
\* modified whether it modified it
updateState(newState, modified) ==
    IF modified THEN Record(newState)
    ELSE UNCHANGED <<state, stateHistory, currentStateIndex>>

\* a board whose values are digits 1..9, no two equal in a house
ValidBoard(cells) ==
    /\ checkValueIsValid(cells)
    /\ \A c \in Cells : HasValue(cells[c]) => cells[c].value[1] \in Digits


\* the recipe of fillPencilMarks without clearPencilMarks: every candidate is
\* toggled on the pencil marks the cell has
FilledPencilMarks_NoClear(cell, candidates) ==
    [cell EXCEPT !.pencilMarks = (@ \ candidates) \cup (candidates \ @)]

\* the recipe of fillPencilMarks on one cell without a value: clearPencilMarks,
\* then togglePencilMark for every candidate
FilledPencilMarks(cell, candidates) ==
    [cell EXCEPT !.pencilMarks = candidates]

\* SudokuSolver.fillPencilMarks()
fillPencilMarks ==
    /\ UNCHANGED setVars
    /\ IF ~checkValueIsValid(state)
       THEN /\ lastOp' = Did("fillPencilMarks", "none", "Invalid sudoku", FALSE)
            /\ solveRun' = FALSE
            /\ UNCHANGED <<state, stateHistory, currentStateIndex, candidatesForCell,
                           possibleCellsForCandidate, edits>>
       ELSE
         LET cfc == FilledCandidates(state)
             newState ==
                [c \in Cells |->
                    IF c \in DOMAIN cfc THEN FilledPencilMarks(state[c], cfc[c])
                    ELSE state[c]]
             modified ==
                \E c \in DOMAIN cfc : state[c].pencilMarks # {} \/ cfc[c] # {}
         IN  /\ updateState(newState, modified)
             /\ candidatesForCell' = cfc
             /\ possibleCellsForCandidate' =
                    [d \in Digits |->
                        possibleCellsForCandidate[d] \cup { c \in DOMAIN cfc : d \in cfc[c] }]
             /\ lastOp' = Did("fillPencilMarks", "none", "none", modified)
             /\ solveRun' = ValidBoard(state)
             /\ UNCHANGED edits

\* the pad's button that fills the pencil marks
FillPencilMarks == MayRun /\ fillPencilMarks

\* SudokuSolver.solveOneStep()
solveOneStep ==
    /\ UNCHANGED setVars
    /\ \E r \in { RunSolvers(1, state, candidatesForCell, possibleCellsForCandidate) } :
        /\ candidatesForCell' = r.x.cfc
        /\ possibleCellsForCandidate' = r.x.pcc
        /\ UNCHANGED edits
        /\ IF r.fired = 0
           THEN /\ UNCHANGED <<state, stateHistory, currentStateIndex, solveRun>>
                /\ lastOp' = Did("solveOneStep", "none", "none", FALSE)
           ELSE /\ Record(r.x.cells)
                /\ lastOp' = Did("solveOneStep", solvers[r.fired],
                                 IF checkValueIsValid(r.x.cells) THEN "none"
                                 ELSE "Invalid sudoku", TRUE)
                /\ solveRun' = (solveRun /\ checkValueIsValid(r.x.cells))

\* the pad's button that takes one solver step
SolveOneStep == MayRun /\ solveOneStep

\* undo without its test of the count: the index is lowered whatever it is
Undo_Unguarded(count) ==
    /\ MayRun
    /\ currentStateIndex' = currentStateIndex - count
    /\ state' = IF currentStateIndex - count < 0 THEN state
                ELSE stateHistory[currentStateIndex - count + 1]
    /\ lastOp' = [op |-> "undo", fired |-> "none", error |-> "none",
                  changed |-> TRUE, n |-> lastOp.n + 1, count |-> count]
    /\ solveRun' = FALSE
    /\ UNCHANGED <<stateHistory, candidatesForCell, possibleCellsForCandidate, edits>>
    /\ UNCHANGED setVars

\* Sudoku.undo(count)
Undo(count) ==
    /\ MayRun
    /\ IF currentStateIndex - count < 0
       THEN UNCHANGED <<state, currentStateIndex>>
       ELSE /\ currentStateIndex' = currentStateIndex - count
            /\ state' = stateHistory[currentStateIndex - count + 1]
    /\ lastOp' = [op |-> "undo", fired |-> "none", error |-> "none",
                  changed |-> ~(currentStateIndex - count < 0), n |-> lastOp.n + 1,
                  count |-> count]
    /\ solveRun' = FALSE
    /\ UNCHANGED <<stateHistory, candidatesForCell, possibleCellsForCandidate, edits>>
    /\ UNCHANGED setVars

\* Sudoku.redo(count)
Redo(count) ==
    /\ MayRun
    /\ IF currentStateIndex + count >= Len(stateHistory)
       THEN UNCHANGED <<state, currentStateIndex>>
       ELSE /\ currentStateIndex' = currentStateIndex + count
            /\ state' = stateHistory[currentStateIndex + count + 1]
    /\ lastOp' = [op |-> "redo", fired |-> "none", error |-> "none",
                  changed |-> ~(currentStateIndex + count >= Len(stateHistory)), n |-> lastOp.n + 1,
                  count |-> count]
    /\ solveRun' = FALSE
    /\ UNCHANGED <<stateHistory, candidatesForCell, possibleCellsForCandidate, edits>>
    /\ UNCHANGED setVars

\* an edit made through the pad or the keyboard: updateState with a recipe that
\* changes every selected cell c to changed[c]
Edit(op, selectedCells, changed) ==
    LET newState == [c \in Cells |-> IF c \in selectedCells THEN changed[c] ELSE state[c]]
        modified == \E c \in selectedCells : ~state[c].isGiven
    IN  /\ MayRun
        /\ edits < MaxEdits
        /\ edits' = edits + 1
        /\ updateState(newState, modified)
        /\ lastOp' = Did(op, "none", "none", modified)
        /\ solveRun' = FALSE
        /\ UNCHANGED <<candidatesForCell, possibleCellsForCandidate>>
        /\ UNCHANGED setVars

\* keydown Digit<value> without modifier: setValue(value) on the selected cells
SetValue(selectedCells, value) ==
    Edit("setValue", selectedCells, [c \in Cells |-> CellSetValue(state[c], << value >>)])

\* deleteSelected in value mode: setValue(undefined) on the selected cells
DeleteSelected(selectedCells) ==
    Edit("deleteSelected", selectedCells, [c \in Cells |-> CellSetValue(state[c], Undefined)])

\* keydown Ctrl+Digit<value>: toggleCandidate(value) on the selected cells
ToggleCandidate(selectedCells, value) ==
    Edit("toggleCandidate", selectedCells, [c \in Cells |-> CellToggleCandidate(state[c], value)])

\* keydown Shift+Digit<value>: togglePencilMark(value) on the selected cells
TogglePencilMark(selectedCells, value) ==
    Edit("togglePencilMark", selectedCells, [c \in Cells |-> CellTogglePencilMark(state[c], value)])

\* whether fromCandidateString modifies the draft: a one-digit run assigns isGiven
\* and value, a longer run clears the pencil marks and adds its digits
fromCandidateStringModifies(cells, allCandidates) ==
    \E i \in Cells :
        LET candidates == RunDigits(allCandidates[i + 1])
        IN  \/ Len(candidates) # 1
            \/ ~cells[i].isGiven
            \/ cells[i].value # << candidates[1] >>

\* whether fillFromCandidateString modifies the draft: every cell it does not
\* skip gets a value through setValue or its pencil marks replaced
fillFromCandidateStringModifies(cells, allCandidates) ==
    \E i \in Cells : ~cells[i].isGiven /\ ~HasValue(cells[i])

\* updateState(true, state => state.fromCandidateString(code)) or
\* updateState(true, state => state.fillFromCandidateString(code))
Import(op, allCandidates, loaded, modified) ==
    /\ MayRun
    /\ edits < MaxEdits
    /\ edits' = edits + 1
    /\ solveRun' = FALSE
    /\ UNCHANGED <<candidatesForCell, possibleCellsForCandidate>>
    /\ UNCHANGED setVars
    /\ IF Len(allCandidates) # 81
       THEN /\ UNCHANGED <<state, stateHistory, currentStateIndex>>
            /\ lastOp' = Did(op, "none", "Invalid candidate string", FALSE)
       ELSE /\ updateState(loaded, modified)
            /\ lastOp' = Did(op, "none", "none", modified)

FromCandidateString(code) ==
    \E allCandidates \in { DigitRuns(code) } :
        Import("fromCandidateString", allCandidates,
               fromCandidateString(state, allCandidates),
               fromCandidateStringModifies(state, allCandidates))

FillFromCandidateString(code) ==
    \E allCandidates \in { DigitRuns(code) } :
        Import("fillFromCandidateString", allCandidates,
               fillFromCandidateString(state, allCandidates),
               fillFromCandidateStringModifies(state, allCandidates))

RECURSIVE ToChars(_)
\* String(n) of an integer, as characters
ToChars(n) ==
    IF n < 0 THEN << "-" >> \o ToChars(0 - n)
    ELSE IF n < 10 THEN << DigitChars[n + 1] >>
    ELSE ToChars(n \div 10) \o << DigitChars[(n % 10) + 1] >>

RECURSIVE JoinDigits(_)
\* Array.from(pencilMarks).join(""); the marks are taken in ascending order, the
\* order fillPencilMarks inserts them in
JoinDigits(S) == IF S = {} THEN << >> ELSE LET d == Min(S) IN ToChars(d) \o JoinDigits(S \ {d})

RECURSIVE JoinCells(_, _, _)
\* the pieces of cells lo .. hi joined with " "
JoinCells(cells, lo, hi) ==
    IF lo = hi
    THEN (IF cells[lo].isGiven THEN ToChars(cells[lo].value[1])
          ELSE JoinDigits(cells[lo].pencilMarks))
    ELSE LET mid == (lo + hi) \div 2
         IN  JoinCells(cells, lo, mid) \o << " " >> \o JoinCells(cells, mid + 1, hi)

\* SudokuState.toCandidateString()
toCandidateString(cells) == JoinCells(cells, 0, 80)

-----------------------------------------------------------------------------
(* The boards the pad is started on, as the strings given to Sudoku.fromString, *)
(* and the inputs of the operations.                                            *)

\* a board on which the first deductions are eliminations (finned fish, locked
\* candidates) and which the techniques do not finish
PuzzleLocked ==
    << ".", ".", "4", "6", "7", "8", "9", "1", "2", "6", "7", "2", "1", "9", "5", "3", "4", "8", "1", "9", "8", "3", "4", "2", "5", "6", "7",
       "8", ".", "9", "7", "6", "1", "4", "2", ".", "4", "2", "6", "8", "5", "3", "7", "9", "1", "7", "1", ".", "9", "2", "4", "8", ".", "6",
       "9", "6", "1", "5", "3", "7", "2", "8", "4", "2", "8", ".", "4", "1", "9", "6", ".", ".", ".", "4", ".", "2", "8", "6", "1", ".", "9" >>

\* a board that single-candidate deductions finish
PuzzleSingles ==
    << ".", ".", "4", "6", "7", "8", "9", "1", "2", ".", ".", "2", "1", "9", "5", "3", "4", "8", "1", "9", "8", "3", "4", "2", "5", "6", "7",
       "8", "5", "9", "7", "6", "1", "4", "2", "3", "4", "2", "6", "8", "5", "3", "7", "9", "1", "7", "1", "3", "9", "2", "4", "8", "5", "6",
       "9", "6", "1", "5", "3", "7", "2", "8", "4", "2", "8", "7", "4", "1", "9", "6", "3", "5", "3", "4", "5", "2", "8", "6", "1", "7", "9" >>

\* a board with two completions, on which no technique finds anything
PuzzleStuck ==
    << "5", "3", "4", ".", ".", "8", "9", "1", "2", "6", "7", "2", "1", "9", "5", "3", "4", "8", "1", "9", "8", "3", "4", "2", "5", "6", "7",
       "8", "5", "9", ".", ".", "1", "4", "2", "3", "4", "2", "6", "8", "5", "3", "7", "9", "1", "7", "1", "3", "9", "2", "4", "8", "5", "6",
       "9", "6", "1", "5", "3", "7", "2", "8", "4", "2", "8", "7", "4", "1", "9", "6", "3", "5", "3", "4", "5", "2", "8", "6", "1", "7", "9" >>

\* a board without a duplicate that has no completion
PuzzleContradictory ==
    << ".", "5", "4", "6", "7", "8", "9", "1", "2", "6", "7", "2", "1", "9", "5", "3", "4", "8", "1", "9", "8", "3", "4", "2", "5", "6", "7",
       "8", ".", "9", "7", "6", "1", "4", "2", "3", "4", "2", "6", "8", "5", "3", "7", "9", "1", "7", "1", "3", "9", "2", "4", "8", "5", "6",
       "9", "6", "1", "5", "3", "7", "2", "8", "4", "2", "8", "7", "4", "1", "9", "6", "3", "5", "3", "4", "5", "2", "8", "6", "1", "7", "9" >>

\* a board three cells short of its completion
PuzzleAlmost ==
    << "5", "3", "4", ".", "7", "8", "9", ".", "2", "6", "7", "2", ".", "9", "5", "3", "4", "8", "1", "9", "8", "3", "4", "2", "5", "6", "7",
       "8", "5", "9", "7", "6", "1", "4", "2", "3", "4", "2", "6", "8", "5", "3", "7", "9", "1", "7", "1", "3", "9", "2", "4", "8", "5", "6",
       "9", "6", "1", "5", "3", "7", "2", "8", "4", "2", "8", "7", "4", "1", "9", "6", "3", "5", "3", "4", "5", "2", "8", "6", "1", "7", "9" >>

\* a board on which the first technique to apply is a naked subset: r1c1, r4c1
\* and r9c1 hold 6, 7 and 9 between them
PuzzleNakedSubset ==
    << ".", ".", ".", "4", ".", "1", "2", "5", "8", ".", ".", ".", "2", ".", "6", "7", "9", "4", ".", "4", ".", "9", ".", "8", "6", "3", "1",
       ".", ".", "8", "3", "9", "4", "5", "1", "2", ".", ".", ".", "1", "6", "2", ".", "8", "7", ".", ".", ".", "5", "8", "7", ".", "6", "3",
       "3", ".", ".", "7", "2", "9", "8", "4", "6", ".", ".", "4", "6", "1", "5", "3", "7", "9", ".", ".", ".", "8", "4", "3", "1", "2", "5" >>

Puzzles == { PuzzleLocked, PuzzleSingles, PuzzleStuck, PuzzleContradictory, PuzzleAlmost, PuzzleNakedSubset }

\* the candidate grid of the comment above fromCandidateString, row by row
DocGrid ==
    << "|", "9", " ", "2", "3", "4", " ", "7", "|", "2", "3", "4", "6", "8", " ", "1", "3", "4", "6", "8",
       " ", "5", "|", "2", "4", "8", " ", "1", "2", "3", "4", "6", "8", " ", "1", "2", "3", "4", "|", "|",
       "1", " ", "2", "3", "4", "5", " ", "2", "3", "4", "5", "|", "7", " ", "3", "4", "6", "8", " ", "2",
       "3", "8", "|", "9", " ", "2", "3", "4", "6", "8", " ", "2", "3", "4", "|", "|", "8", " ", "6", " ",
       "2", "3", "4", "|", "2", "3", "4", " ", "9", " ", "1", "2", "3", "|", "5", " ", "7", " ", "1", "2",
       "3", "4", "|", "|", "4", "5", "7", " ", "8", " ", "4", "5", "|", "2", "3", "4", " ", "3", "4", "7",
       " ", "6", "|", "1", " ", "2", "3", "4", " ", "9", "|", "|", "3", " ", "1", " ", "6", "|", "2", "4",
       "8", " ", "5", " ", "9", "|", "2", "4", "8", " ", "2", "4", "8", " ", "7", "|", "|", "2", " ", "4",
       "7", " ", "9", "|", "1", " ", "3", "4", "7", "8", " ", "3", "7", "8", "|", "6", " ", "5", " ", "3",
       "4", "|", "|", "4", "5", "7", " ", "3", "4", "5", "7", " ", "1", "3", "4", "5", "8", "|", "3", "5",
       "8", " ", "2", " ", "1", "3", "7", "8", "|", "4", "7", " ", "9", " ", "6", "|", "|", "5", "6", "7",
       " ", "9", " ", "1", "2", "3", "5", "|", "3", "5", "6", " ", "1", "3", "6", "7", " ", "4", "|", "2",
       "7", " ", "1", "2", " ", "8", "|", "|", "4", "6", "7", " ", "2", "4", "7", " ", "1", "2", "4", "8",
       "|", "9", " ", "1", "6", "7", "8", " ", "1", "7", "8", "|", "3", " ", "1", "2", "4", " ", "5", "|" >>

\* the cells the pad's selection is put on (r1c1 and r1c4) and the digit keys pressed
EditCells == { getCellPosition(0, 0), getCellPosition(0, 3) }
EditDigits == { 7 }

\* the candidate strings given to the imports: the documented grid and the
\* board's own toCandidateString
ImportCodes == { DocGrid, toCandidateString(state) }

-----------------------------------------------------------------------------
(* The state machine. *)

\* new Sudoku(...) through Sudoku.fromString, and new SudokuSolver(sudoku)
\* new CellSet() of the bit-packed class: no bit set, no cached array
NewCellSet == [bitset |-> {}, cells |-> Undefined]

\* new CellSet() of the Map-based class: an empty Map
NewCellMap == << >>

\* the pad started on a board: Sudoku.fromString(puzzle) and a new solver on it
NewPad(puzzle) ==
    /\ state = fromString(puzzle)
    /\ stateHistory = << state >>
    /\ currentStateIndex = 0
    /\ candidatesForCell = << >>
    /\ possibleCellsForCandidate = [d \in Digits |-> {}]
    /\ lastOp = [op |-> "fromString", fired |-> "none", error |-> "none", changed |-> FALSE,
                 n |-> 0]
    /\ edits = 0
    /\ solveRun = FALSE

Init ==
    /\ \E puzzle \in Puzzles : NewPad(puzzle)
    /\ cellSet = NewCellSet
    /\ cellMap = NewCellMap

Next ==
    \/ FillPencilMarks
    \/ SolveOneStep
    \/ \E count \in 1 .. MaxCount : Undo(count)
    \/ \E count \in 1 .. MaxCount : Redo(count)
    \/ \E cell \in EditCells, value \in EditDigits : SetValue({cell}, value)
    \/ \E cell \in EditCells : DeleteSelected({cell})
    \/ \E cell \in EditCells, value \in EditDigits : ToggleCandidate({cell}, value)
    \/ \E cell \in EditCells, value \in EditDigits : TogglePencilMark({cell}, value)
    \/ \E code \in ImportCodes : FromCandidateString(code)
    \/ \E code \in ImportCodes : FillFromCandidateString(code)

Spec == Init /\ [][Next]_vars

-----------------------------------------------------------------------------
(* A solving session, as the regression test runs it: the candidates are   *)
(* filled in once and the solver then takes one step after another.        *)

\* number of operations of a session
MaxSteps == 70

\* the first board of the regression test (initial_values)
PuzzleClassic ==
    << "5", "3", ".", ".", "7", ".", ".", ".", ".", "6", ".", ".", "1", "9", "5", ".", ".", ".", ".", "9", "8", ".", ".", ".", ".", "6", ".",
       "8", ".", ".", ".", "6", ".", ".", ".", "3", "4", ".", ".", "8", ".", "3", ".", ".", "1", "7", ".", ".", ".", "2", ".", ".", ".", "6",
       ".", "6", ".", ".", ".", ".", "2", "8", ".", ".", ".", ".", "4", "1", "9", ".", ".", "5", ".", ".", ".", ".", "8", ".", ".", "7", "9" >>

\* the second board of the regression test, whose solution takes locked candidates
PuzzlePointing ==
    << ".", "5", ".", ".", "3", "4", "6", ".", ".", ".", ".", ".", ".", ".", ".", ".", ".", "8", ".", "3", ".", "8", "7", "9", ".", ".", ".",
       ".", "1", "5", ".", ".", ".", ".", ".", "6", ".", ".", ".", "2", "6", ".", ".", "5", ".", ".", ".", ".", ".", ".", ".", "9", "2", ".",
       ".", "4", ".", ".", "2", "7", ".", "1", "3", ".", "7", "3", ".", ".", ".", ".", ".", ".", ".", ".", ".", ".", ".", "8", "7", ".", "." >>

\* a board on which 5 has two places in rows 1 and 2, both in columns 1 and 6,
\* and a third place in column 1 (r4c1)
PuzzleXWing ==
    << ".", "3", "4", "6", "7", ".", "9", "1", "2", ".", "7", "2", "1", "9", ".", "3", "4", "8", "1", "9", "8", "3", "4", "2", "5", "6", "7",
       ".", ".", "9", "7", "6", "1", "4", "2", "3", "4", "2", "6", "8", "5", "3", "7", "9", "1", "7", "1", "3", "9", "2", "4", "8", "5", "6",
       "9", "6", "1", "5", "3", "7", "2", "8", "4", "2", "8", "7", "4", "1", "9", "6", "3", "5", "3", "4", "5", "2", "8", "6", "1", "7", "9" >>

\* the board of the comment above fromCandidateString, whose solution takes a swordfish
PuzzleSwordfish ==
    << ".", ".", ".", ".", ".", "6", ".", ".", ".", ".", "6", "3", "7", ".", ".", ".", ".", "2", "2", ".", ".", ".", ".", ".", "1", "5", ".",
       "6", ".", ".", "2", ".", "8", "5", ".", ".", ".", ".", "8", ".", ".", ".", "6", ".", ".", ".", ".", "4", "6", ".", "5", ".", ".", "3",
       ".", "3", "6", ".", ".", ".", ".", ".", "1", "1", ".", ".", ".", ".", "3", "2", "8", ".", ".", ".", ".", "1", ".", ".", ".", ".", "." >>

SolvePuzzles == { PuzzleClassic, PuzzlePointing, PuzzleXWing, PuzzleNakedSubset, PuzzleSwordfish }

SolveInit ==
    /\ \E puzzle \in SolvePuzzles : NewPad(puzzle)
    /\ cellSet = NewCellSet
    /\ cellMap = NewCellMap

\* the candidates are filled in first
SessionFill == lastOp.n = 0 /\ fillPencilMarks

\* then the steps follow
SessionStep == lastOp.n \in 1 .. MaxSteps - 1 /\ solveOneStep

SolveNext ==
    \/ SessionFill
    \/ SessionStep

SpecSolve == SolveInit /\ [][SolveNext]_vars

-----------------------------------------------------------------------------
(* The properties checked of the state machine. *)

\* the entry of the state history before the current one
PreviousState == stateHistory[currentStateIndex]

\* the last operation was a solveOneStep in which a technique fired, so that
\* PreviousState is the board it ran on
SolverStepRecorded ==
    /\ lastOp.op = "solveOneStep"
    /\ lastOp.fired # "none"
    /\ currentStateIndex >= 1

\* no cell sharing a house with a filled cell has that cell's value among its
\* pencil marks or in its entry of candidatesForCell
NoPeerHasValue(cells, cfc) ==
    \A c \in Cells :
        HasValue(cells[c]) =>
            \A o \in Peers[c] :
                /\ cells[c].value[1] \notin cells[o].pencilMarks
                /\ cells[c].value[1] \notin CandidatesOf(cfc, o)

\* C1, as stated: after every solveOneStep, for every filled cell c with value v
\* no cell sharing a row, column or box with c has v among its candidates
\* (pencil marks and candidatesForCell).
C1_AfterEverySolveOneStep ==
    lastOp.op = "solveOneStep" => NoPeerHasValue(state, candidatesForCell)

\* C1, amended: a solveOneStep that gives a cell the value v leaves v in the
\* pencil marks and the candidatesForCell entry of no cell sharing a house with
\* it, and when no filled cell had its value among a peer's candidates before the
\* step, none has after it.  (Values typed on the pad are not propagated to the
\* peers, so the property is one of the step, not of every board.)
C1_PlacementClearsPeers ==
    [][lastOp'.op = "solveOneStep" =>
        /\ \A c \in Cells :
            (HasValue(state'[c]) /\ state'[c].value # state[c].value) =>
                \A o \in Peers[c] :
                    /\ state'[c].value[1] \notin state'[o].pencilMarks
                    /\ state'[c].value[1] \notin CandidatesOf(candidatesForCell', o)
        /\ NoPeerHasValue(state, candidatesForCell)
                => NoPeerHasValue(state', candidatesForCell')]_vars

\* C1, witness: a technique has just placed a value that a cell sharing a house
\* with the placed cell had among its pencil marks, and no candidate of any cell
\* is now the value of one of its peers
C1_Witness ==
    /\ SolverStepRecorded
    /\ NoPeerHasValue(state, candidatesForCell)
    /\ \E c \in Cells :
        /\ HasValue(state[c]) /\ ~HasValue(PreviousState[c])
        /\ \E o \in Peers[c] : state[c].value[1] \in PreviousState[o].pencilMarks

\* C2, as stated: under every operation but undo and redo, a cell that is a given
\* stays a given and keeps its value.
C2_GivensImmutable ==
    [][lastOp'.op \notin { "undo", "redo" } =>
        \A c \in Cells :
            state[c].isGiven => (state'[c].isGiven /\ state'[c].value = state[c].value)]_vars

\* the two indices agree with each other and with the board: cell c is in
\* possibleCellsForCandidate[d] exactly when d is in candidatesForCell[c], the
\* entry of a cell without a value is its pencil marks, and a cell with a value
\* is in no entry
IndicesInSync(cells, cfc, pcc) ==
    \A c \in Cells :
        /\ \A d \in Digits : (c \in PossibleCells(pcc, d)) <=> (d \in CandidatesOf(cfc, c))
        /\ ~HasValue(cells[c]) => CandidatesOf(cfc, c) = cells[c].pencilMarks
        /\ HasValue(cells[c]) =>
            (c \notin DOMAIN cfc /\ \A d \in Digits : c \notin PossibleCells(pcc, d))

\* C3, as stated: after fillPencilMarks and after every placement or elimination
\* done by a technique, candidatesForCell, possibleCellsForCandidate and the
\* board's pencil marks agree, and filled cells are in no index entry.
C3_IndicesInSync ==
    (\/ lastOp.op = "fillPencilMarks" /\ lastOp.error = "none"
     \/ lastOp.op = "solveOneStep" /\ lastOp.fired # "none")
        => IndicesInSync(state, candidatesForCell, possibleCellsForCandidate)

\* the order of the array `solvers`, written out
TechniqueOrderOfTheCode ==
    << "fullHouse", "nakedSingle", "solveHiddenSingle", "LockedCandidatesType",
       "hiddenSubset", "nakedSubset", "basicFish", "finnedFish", "complexFish" >>

\* the order C4 states: HiddenSingle before NakedSingle and NakedSubset before
\* HiddenSubset
TechniqueOrderOfTheClaim ==
    << "fullHouse", "solveHiddenSingle", "nakedSingle", "LockedCandidatesType",
       "nakedSubset", "hiddenSubset", "basicFish", "finnedFish", "complexFish" >>

RECURSIVE FirstToFire(_, _, _, _, _)
\* the first technique of `order`, from position i on, that finds a deduction on
\* the board when the techniques before it were asked and found none
FirstToFire(order, i, cells, cfc, pcc) ==
    IF i > Len(order) THEN "none"
    ELSE CHOOSE r \in
            { IF x.modified THEN order[i]
              ELSE FirstToFire(order, i + 1, cells, x.cfc, x.pcc) :
                x \in { RunSolver(order[i], Draft(cells, cfc, pcc)) } } : TRUE

C5_StepDoesNotApply ==
    [][lastOp'.op = "solveOneStep" =>
        UNCHANGED <<state, candidatesForCell, possibleCellsForCandidate>>]_vars

\* C5, amended: solveOneStep applies the deduction it found itself.  When a
\* technique fires, the board with the deduction made (pencil marks removed,
\* values set in cells that are not givens) is appended to the state history as
\* the current state, and it differs from the board before when the indices agreed
\* with that board; when none fires, board and history are as before.
C5_StepAppliesDeduction ==
    [][lastOp'.op = "solveOneStep" =>
        IF lastOp'.fired = "none"
        THEN UNCHANGED <<state, stateHistory, currentStateIndex>>
        ELSE /\ currentStateIndex' = currentStateIndex + 1
             /\ stateHistory' = Append(SubSeq(stateHistory, 1, currentStateIndex + 1), state')
             /\ \A c \in Cells :
                    /\ state'[c].pencilMarks \subseteq state[c].pencilMarks
                    /\ state'[c].isGiven = state[c].isGiven
                    /\ state'[c].value # state[c].value =>
                            (HasValue(state'[c]) /\ ~state[c].isGiven)
             /\ IndicesInSync(state, candidatesForCell, possibleCellsForCandidate)
                    => state' # state]_vars

\* C5, witness: a technique fired, the board differs from the one before and is
\* the last entry of the history
C5_Witness ==
    /\ SolverStepRecorded
    /\ state # PreviousState
    /\ currentStateIndex + 1 = Len(stateHistory)
    /\ stateHistory[currentStateIndex + 1] = state

\* C6, as stated: when no technique finds a deduction, solveOneStep ends without
\* error and board, indices, state history and currentStateIndex are unchanged.
C6_NothingFiresNothingChanges ==
    [][(lastOp'.op = "solveOneStep" /\ lastOp'.fired = "none") =>
        /\ lastOp'.error = "none"
        /\ UNCHANGED <<state, stateHistory, currentStateIndex, candidatesForCell,
                       possibleCellsForCandidate>>]_vars

\* the digits that are the value of no cell in the row, column or box of c
DigitsNotSeenBy(cells, c) ==
    { d \in Digits : \A o \in Peers[c] : cells[o].value # << d >> }

PencilMarksOf(cells) == [c \in Cells |-> cells[c].pencilMarks]

\* C8: a fillPencilMarks run right after a fillPencilMarks leaves candidatesForCell,
\* the pencil marks of the board and possibleCellsForCandidate as the first left
\* them.
C8_FillIdempotent ==
    [][(lastOp.op = "fillPencilMarks" /\ lastOp.error = "none"
            /\ lastOp'.op = "fillPencilMarks") =>
        /\ lastOp'.error = "none"
        /\ candidatesForCell' = candidatesForCell
        /\ possibleCellsForCandidate' = possibleCellsForCandidate
        /\ PencilMarksOf(state') = PencilMarksOf(state)]_vars

\* C8, witness: fillPencilMarks has run on a board that carried the pencil marks
\* and the indices of an earlier fillPencilMarks, and pushed a state equal to
\* the one before
C8_Witness ==
    /\ lastOp.op = "fillPencilMarks" /\ lastOp.error = "none" /\ lastOp.changed
    /\ lastOp.n >= 2
    /\ currentStateIndex >= 2
    /\ state = PreviousState
    /\ IndicesInSync(state, candidatesForCell, possibleCellsForCandidate)
    /\ \E c \in Cells : Cardinality(state[c].pencilMarks) >= 2

\* no two cells of a house have the same value
NoDuplicate(cells) ==
    \A h \in 1 .. 27 :
        LET filled == { c \in Houses[h] : HasValue(cells[c]) }
        IN  Cardinality({ cells[c].value[1] : c \in filled }) = Cardinality(filled)

\* every row, column and box has each digit 1..9 exactly once
ProperGrid(cells) ==
    \A h \in 1 .. 27 : \A d \in Digits :
        Cardinality({ c \in Houses[h] : cells[c].value = << d >> }) = 1

AllFilled(cells) == \A c \in Cells : HasValue(cells[c])

-----------------------------------------------------------------------------
(* C11: the order of the single-candidate techniques on the test's board. *)

\* the cells without a value that have exactly one pencil mark
SingleCandidateCells(cells) ==
    { c \in Cells : ~HasValue(cells[c]) /\ Cardinality(cells[c].pencilMarks) = 1 }

\* no house has exactly one cell without a value
NoFullHouse(cells) ==
    \A h \in 1 .. 27 : Cardinality({ c \in Houses[h] : ~HasValue(cells[c]) }) # 1

\* r5c5
Centre == getCellPosition(4, 4)

\* the board of the regression test with its candidates filled in
ClassicFilled ==
    /\ stateHistory[1] = fromString(PuzzleClassic)
    /\ lastOp.op = "fillPencilMarks"
    /\ lastOp.n = 1

\* C11: a solveOneStep on a board on which no house has exactly one empty cell
\* and several empty cells have a single candidate reports a naked single: it
\* fires nakedSingle and gives one of those cells its only candidate as value,
\* every other cell keeping its value.  On the test's first board, right after
\* the candidates were filled in, that step is the naked single r5c5=5.
C11_NakedSingleFirst ==
    [][lastOp'.op = "solveOneStep" =>
        /\ (NoFullHouse(state) /\ Cardinality(SingleCandidateCells(state)) >= 2) =>
            /\ lastOp'.fired = "nakedSingle"
            /\ \E c \in SingleCandidateCells(state) :
                /\ state'[c].value = << CHOOSE v \in state[c].pencilMarks : TRUE >>
                /\ \A o \in Cells \ {c} : state'[o].value = state[o].value
        /\ ClassicFilled =>
            /\ lastOp'.fired = "nakedSingle"
            /\ state'[Centre].value = << 5 >>
            /\ \A o \in Cells \ {Centre} : state'[o].value = state[o].value
      ]_vars

\* C11, witness: the first step on the test's first board has placed 5 in r5c5,
\* on a board without a house of one empty cell and with several cells of one
\* candidate
C11_Witness ==
    /\ stateHistory[1] = fromString(PuzzleClassic)
    /\ SolverStepRecorded
    /\ lastOp.n = 2
    /\ lastOp.fired = "nakedSingle"
    /\ NoFullHouse(PreviousState)
    /\ Cardinality(SingleCandidateCells(PreviousState)) >= 2
    /\ state[Centre].value = << 5 >>
    /\ ~HasValue(PreviousState[Centre])

-----------------------------------------------------------------------------
(* C12: locked candidates. *)

\* the cells of house h that carry digit d among their pencil marks
CarriersIn(cells, h, d) == { c \in Houses[h] : d \in cells[c].pencilMarks }

\* the test's second board after fillPencilMarks and the 22 steps that come
\* before its locked candidates
PointingBeforeLocked ==
    /\ stateHistory[1] = fromString(PuzzlePointing)
    /\ lastOp.op = "solveOneStep"
    /\ lastOp.n = 23

\* C12: a solveOneStep in which LockedCandidatesType fires has a house A, a house
\* B meeting it and a digit d, all of whose places in A lie in B, such that the
\* step removes d from every cell of B outside A that carried it, at least one,
\* all in this one step, and changes nothing else of the board.  On the test's
\* second board that step removes 7 from r1c1 and from r1c3 together.
C12_LockedCandidatesAllAtOnce ==
    [][(lastOp'.op = "solveOneStep" /\ lastOp'.fired = "LockedCandidatesType") =>
        /\ \E a \in 1 .. 27, b \in 1 .. 27, d \in Digits :
            /\ Houses[a] \cap Houses[b] # {}
            /\ CarriersIn(state, a, d) # {}
            /\ CarriersIn(state, a, d) \subseteq Houses[b]
            /\ CarriersIn(state, b, d) \ Houses[a] # {}
            /\ state' = [c \in Cells |->
                            IF c \in Houses[b] \ Houses[a]
                            THEN [state[c] EXCEPT !.pencilMarks = @ \ {d}]
                            ELSE state[c]]
        /\ PointingBeforeLocked =>
            /\ 7 \in state[getCellPosition(0, 0)].pencilMarks
            /\ 7 \in state[getCellPosition(0, 2)].pencilMarks
            /\ 7 \notin state'[getCellPosition(0, 0)].pencilMarks
            /\ 7 \notin state'[getCellPosition(0, 2)].pencilMarks
      ]_vars

\* C12, witness: the locked candidates of the test's second board have fired and
\* have taken 7 from both r1c1 and r1c3, which carried it before the step
C12_Witness ==
    /\ stateHistory[1] = fromString(PuzzlePointing)
    /\ SolverStepRecorded
    /\ lastOp.fired = "LockedCandidatesType"
    /\ lastOp.n = 24
    /\ 7 \in PreviousState[getCellPosition(0, 0)].pencilMarks
    /\ 7 \in PreviousState[getCellPosition(0, 2)].pencilMarks
    /\ 7 \notin state[getCellPosition(0, 0)].pencilMarks
    /\ 7 \notin state[getCellPosition(0, 2)].pencilMarks

-----------------------------------------------------------------------------
(* C13: the X-Wing. *)

\* digit d has exactly two places in each of the rows r1 and r2, in the columns
\* c1 and c2 both times, and a further place in one of these columns outside
\* the two rows; houses 10..18 are the rows and 19..27 the columns
XWingGadget(cells, d, r1, r2, c1, c2) ==
    /\ r1 # r2
    /\ c1 # c2
    /\ CarriersIn(cells, r1, d) = Houses[r1] \cap (Houses[c1] \cup Houses[c2])
    /\ CarriersIn(cells, r2, d) = Houses[r2] \cap (Houses[c1] \cup Houses[c2])
    /\ (CarriersIn(cells, c1, d) \cup CarriersIn(cells, c2, d)) \ (Houses[r1] \cup Houses[r2]) # {}

\* C13, as stated: on a board whose pencil marks and solver indices agree and
\* which has an X-Wing gadget for digit d in rows r1, r2 and columns c1, c2, the
\* basic-fish technique fires and removes d from exactly the cells of c1 and c2
\* outside r1 and r2.
C13_XWingEliminates ==
    IndicesInSync(state, candidatesForCell, possibleCellsForCandidate) =>
        \A d \in Digits, r1 \in 10 .. 18, r2 \in 10 .. 18, c1 \in 19 .. 27, c2 \in 19 .. 27 :
            XWingGadget(state, d, r1, r2, c1, c2) =>
                \E x \in { basicFish(Draft(state, candidatesForCell, possibleCellsForCandidate)) } :
                    /\ x.modified
                    /\ x.cells = [c \in Cells |->
                                    IF c \in (Houses[c1] \cup Houses[c2]) \ (Houses[r1] \cup Houses[r2])
                                    THEN [state[c] EXCEPT !.pencilMarks = @ \ {d}]
                                    ELSE state[c]]

-----------------------------------------------------------------------------
(* Reading a board from its value string and writing it back. *)

\* Sudoku.fromString(code) throws: a character other than "." beyond the 81st
\* makes getCellPosition read the position of a cell the board does not have
fromStringThrows(code) == \E i \in 82 .. Len(code) : code[i] # "."

\* String(value) of a cell's value
ValueToChars(value) == IF value = NaN THEN << "N", "a", "N" >> ELSE ToChars(value)

RECURSIVE JoinValues(_, _, _)
\* the pieces of cells lo .. hi joined with ""
JoinValues(cells, lo, hi) ==
    IF lo = hi
    THEN (IF cells[lo].value = Undefined THEN << "." >> ELSE ValueToChars(cells[lo].value[1]))
    ELSE LET mid == (lo + hi) \div 2
         IN  JoinValues(cells, lo, mid) \o JoinValues(cells, mid + 1, hi)

\* Sudoku.toValueString()
toValueString(cells) == JoinValues(cells, 0, 80)

\* the characters of a board's value string
BoardChars == { "." } \cup { DigitChars[i] : i \in 2 .. 10 }

\* the places of a string that the inputs vary: the first, the middle and the
\* last character
VariedPlaces == { 1, 41, 81 }

\* the boards the inputs are made from
ParsePuzzles == { PuzzleClassic, PuzzleStuck, PuzzleAlmost }

\* value strings of 81 characters "." and "1".."9"
WellFormedStrings ==
    { [p EXCEPT ![i] = ch] : p \in ParsePuzzles, i \in VariedPlaces, ch \in BoardChars }

\* strings that are too short or too long, or have a character that is no digit
\* of a board
MalformedStrings ==
    { SubSeq(p, 1, 80) : p \in ParsePuzzles }
        \cup { << >> }
        \cup { p \o << ch >> : p \in ParsePuzzles, ch \in { ".", "7" } }
        \cup { [p EXCEPT ![i] = ch] : p \in ParsePuzzles, i \in VariedPlaces, ch \in { "x", "0" } }

ValueStrings == WellFormedStrings \cup MalformedStrings

\* new Sudoku(9, 9): the empty board, before any string is read
ParseInit ==
    /\ state = [c \in Cells |-> NewCell]
    /\ stateHistory = << state >>
    /\ currentStateIndex = 0
    /\ candidatesForCell = << >>
    /\ possibleCellsForCandidate = [d \in Digits |-> {}]
    /\ lastOp = [op |-> "new", fired |-> "none", error |-> "none", changed |-> FALSE,
                 n |-> 0, code |-> << >>]
    /\ edits = 0
    /\ solveRun = FALSE
    /\ cellSet = NewCellSet
    /\ cellMap = NewCellMap

\* const sudoku = Sudoku.fromString(code): when it returns the pad is on the new
\* board, when it throws there is no new board and the pad stays as it is
FromString(code) ==
    /\ UNCHANGED <<candidatesForCell, possibleCellsForCandidate, edits, solveRun>>
    /\ UNCHANGED setVars
    /\ IF fromStringThrows(code)
       THEN /\ UNCHANGED <<state, stateHistory, currentStateIndex>>
            /\ lastOp' = [op |-> "fromString", fired |-> "none", error |-> "TypeError",
                          changed |-> FALSE, n |-> 0, code |-> code]
       ELSE /\ state' = fromString(code)
            /\ stateHistory' = << state' >>
            /\ currentStateIndex' = 0
            /\ lastOp' = [op |-> "fromString", fired |-> "none", error |-> "none",
                          changed |-> TRUE, n |-> 0, code |-> code]

ParseNext == \E code \in ValueStrings : FromString(code)

SpecParse == ParseInit /\ [][ParseNext]_vars

\* the last string read
LastCode == lastOp.code

\* an 81-character string of "." and "1".."9"
WellFormed(code) == Len(code) = 81 /\ \A i \in 1 .. 81 : code[i] \in BoardChars

\* C14, as stated: fromString of a string whose length is not 81, or which has
\* a character other than "." and the digits 0..9, fails with an error and
\* makes no board.
C14_MalformedRejected ==
    (/\ lastOp.op = "fromString"
     /\ \/ Len(LastCode) # 81
        \/ \E i \in 1 .. Len(LastCode) : LastCode[i] # "." /\ ~IsDigitChar(LastCode[i]))
        => lastOp.error # "none"

\* C15: for every 81-character string s of "." and "1".."9", fromString(s)
\* succeeds and toValueString of the board is s again; a "." is a cell without
\* value, not given, and a digit is a given cell with that digit as value.
C15_ValueStringRoundTrip ==
    (lastOp.op = "fromString" /\ WellFormed(LastCode)) =>
        /\ lastOp.error = "none"
        /\ toValueString(state) = LastCode
        /\ \A c \in Cells :
            IF LastCode[c + 1] = "."
            THEN ~HasValue(state[c]) /\ ~state[c].isGiven
            ELSE /\ state[c].isGiven
                 /\ state[c].value # Undefined
                 /\ state[c].value[1] \in Digits
                 /\ DigitChars[state[c].value[1] + 1] = LastCode[c + 1]

\* C15, witness: a well-formed string with empty cells and with a digit in its
\* last place has been read and the board writes it back
C15_Witness ==
    /\ lastOp.op = "fromString"
    /\ WellFormed(LastCode)
    /\ LastCode[81] # "."
    /\ \E i \in 1 .. 81 : LastCode[i] = "."
    /\ lastOp.error = "none"
    /\ toValueString(state) = LastCode

-----------------------------------------------------------------------------
(* C16, C17: the candidate string of a board and its parsing. *)

\* the board a new Sudoku has
EmptyBoard == [c \in Cells |-> NewCell]

\* C16, as stated: the candidate string of every board is one fromCandidateString
\* accepts, 81 digit runs, and read into a new board it gives every cell the
\* value and the candidates it has on the board written, cells with a placed
\* value that is not given and empty cells without pencil marks included.
C16_CandidateStringRoundTrip ==
    \E allCandidates \in { DigitRuns(toCandidateString(state)) } :
        /\ Len(allCandidates) = 81
        /\ \E loaded \in { fromCandidateString(EmptyBoard, allCandidates) } :
            \A c \in Cells :
                /\ loaded[c].value = state[c].value
                /\ loaded[c].pencilMarks = state[c].pencilMarks

\* the digits of a run of digit characters
DigitsOfRun(run) == { NumberOf(run[j]) : j \in 1 .. Len(run) }

\* C17: fromCandidateString of a string that does not have exactly 81 digit runs
\* raises an error and leaves every cell as it was; with 81 runs it raises none,
\* every cell whose run is the single digit v is a given with value v afterwards
\* and every cell whose run has several digits has exactly the digits of its
\* run as pencil marks.
C17_CandidateGridParsing ==
    [][lastOp'.op = "fromCandidateString" =>
        \E code \in ImportCodes :
            \E runs \in { DigitRuns(code) } :
                IF Len(runs) # 81
                THEN lastOp'.error = "Invalid candidate string" /\ state' = state
                ELSE /\ lastOp'.error = "none"
                     /\ \A i \in Cells :
                            IF Len(runs[i + 1]) = 1
                            THEN /\ state'[i].isGiven
                                 /\ state'[i].value = << NumberOf(runs[i + 1][1]) >>
                            ELSE state'[i].pencilMarks = DigitsOfRun(runs[i + 1])
      ]_vars

\* C17, witness: the documented grid (first runs "9", "234", "7") has been read
\* over a board whose second cell had other pencil marks
C17_Witness ==
    /\ lastOp.op = "fromCandidateString"
    /\ lastOp.error = "none"
    /\ lastOp.changed
    /\ currentStateIndex >= 2
    /\ state[getCellPosition(0, 0)].isGiven
    /\ state[getCellPosition(0, 0)].value = << 9 >>
    /\ state[getCellPosition(0, 1)].pencilMarks = { 2, 3, 4 }
    /\ \E c \in Cells : PreviousState[c].pencilMarks \notin { {}, state[c].pencilMarks }

-----------------------------------------------------------------------------
(* C18: steps that empty the candidates of an unsolved cell. *)

\* the cells without a value that still have a pencil mark
OpenCells(cells) == { c \in Cells : ~HasValue(cells[c]) /\ cells[c].pencilMarks # {} }

\* C18, as stated: a step that would leave an unsolved cell without any candidate
\* is refused; no solveOneStep takes the last pencil mark from a cell that has
\* no value afterwards, and a step that reports an error leaves the board as it
\* was.
C18_ContradictionRefused ==
    [][lastOp'.op = "solveOneStep" =>
        /\ \A c \in OpenCells(state) : ~HasValue(state'[c]) => state'[c].pencilMarks # {}
        /\ lastOp'.error # "none" => state' = state
      ]_vars

-----------------------------------------------------------------------------
(* The two CellSet classes: the bit-packed one, whose bitset is a bigint with *)
(* bit idx set for cell idx, and the one that keeps a Map from idx to cell.   *)
(* A bigint is the set of its bits.  A 32-bit number is the set of the bits   *)
(* 0..31 of its two's complement; the operators below are the JavaScript      *)
(* operators on it, which take their operands modulo 2^32 (ToInt32).          *)

\* the most cells a set of the model holds
MaxMembers == 4

Bits == 0 .. 31

\* Number((bitset >> shift) & bitset32Mask)
WordOf(bitset, shift) == { i - shift : i \in { j \in bitset : j >= shift /\ j < shift + 32 } }

\* a & b
BitAnd(a, b) == a \cap b

\* a >> k, the shift that keeps the sign
BitSar(a, k) ==
    { i - k : i \in { j \in a : j >= k } } \cup (IF 31 \in a THEN (32 - k) .. 31 ELSE {})

\* a << k (here: a * 2^k modulo 2^32)
BitShl(a, k) == { i + k : i \in { j \in a : j + k <= 31 } }

\* a + b + carry modulo 2^32
BitAddCarry(a, b, carry) ==
    LET c[i \in 0 .. 32] ==
            IF i = 0 THEN carry
            ELSE \/ (i - 1 \in a) /\ (i - 1 \in b)
                 \/ (i - 1 \in a) /\ c[i - 1]
                 \/ (i - 1 \in b) /\ c[i - 1]
    IN  { i \in Bits : ((i \in a) # (i \in b)) # c[i] }

\* a + b
BitAdd(a, b) == BitAddCarry(a, b, FALSE)

\* a - b
BitSub(a, b) == BitAddCarry(a, Bits \ b, TRUE)

RECURSIVE PowerOfTwo(_)
PowerOfTwo(i) == IF i = 0 THEN 1 ELSE 2 * PowerOfTwo(i - 1)

RECURSIVE SumOfBits(_)
SumOfBits(a) == IF a = {} THEN 0 ELSE LET i == Min(a) IN PowerOfTwo(i) + SumOfBits(a \ {i})

\* the number a 32-bit result stands for: negative when bit 31 is set
Int32Of(a) == IF 31 \in a THEN (0 - 1) - SumOfBits((0 .. 30) \ a) ELSE SumOfBits(a)

\* 0x55555555, 0x33333333, 0x0f0f0f0f
Mask55 == { i \in Bits : i % 2 = 0 }
Mask33 == { i \in Bits : i % 4 < 2 }
Mask0f == { i \in Bits : i % 8 < 4 }

\* CellSet.popcnt32(n)
popcnt32(n) ==
    LET n1 == BitSub(n, BitAnd(BitSar(n, 1), Mask55))
        n2 == BitAnd(BitAdd(BitAnd(n1, Mask33), BitSar(n1, 2)), Mask33)
        n3 == BitAnd(BitAdd(n2, BitSar(n2, 4)), Mask0f)
        n4 == BitAdd(BitAdd(n3, BitShl(n3, 8)), BitAdd(BitShl(n3, 16), BitShl(n3, 24)))
    IN  Int32Of(BitSar(n4, 24))

\* get size() of the bit-packed class
CellSetSize(set) ==
    popcnt32(WordOf(set.bitset, 0)) + popcnt32(WordOf(set.bitset, 32))
        + popcnt32(WordOf(set.bitset, 64))

RECURSIVE Ascending(_)
\* the numbers of S from the least to the greatest
Ascending(S) == IF S = {} THEN << >> ELSE LET i == Min(S) IN << i >> \o Ascending(S \ {i})

\* valuesForNumber32(n, shift): idx + shift pushed for idx = 0, 1, .., 31 with bit
\* idx of n set
valuesForNumber32(n, shift) == Ascending({ idx + shift : idx \in n })

\* values() of the bit-packed class: the cached array if there is one
CellSetValues(set) ==
    IF set.cells # Undefined THEN set.cells[1]
    ELSE valuesForNumber32(WordOf(set.bitset, 0), 0)
            \o valuesForNumber32(WordOf(set.bitset, 32), 32)
            \o valuesForNumber32(WordOf(set.bitset, 64), 64)

\* add(cell), delete(cell), clear() of the bit-packed class
CellSetAdd(set, cell) == [bitset |-> set.bitset \cup {cell}, cells |-> Undefined]
CellSetDelete(set, cell) == [bitset |-> set.bitset \ {cell}, cells |-> Undefined]
CellSetClear(set) == [bitset |-> {}, cells |-> Undefined]

\* CellSet.fromPositions(positions) of the bit-packed class
fromPositions(positions) == [bitset |-> SeqRange(positions), cells |-> << positions >>]

\* union(other) and intersection(other) of the bit-packed class
CellSetUnion(set, other) == [bitset |-> set.bitset \cup other.bitset, cells |-> Undefined]
CellSetIntersection(set, other) == [bitset |-> set.bitset \cap other.bitset, cells |-> Undefined]

\* Map.set(idx, cell): a new key goes to the end, a key the Map has stays
CellMapAdd(map, cell) == IF cell \in SeqRange(map) THEN map ELSE Append(map, cell)

\* Map.delete(idx)
CellMapDelete(map, cell) == SelectSeq(map, LAMBDA k : k # cell)

RECURSIVE CellMapAddAll(_, _)
\* add(cell) for the cells of a sequence, in order
CellMapAddAll(map, cells) ==
    IF cells = << >> THEN map ELSE CellMapAddAll(CellMapAdd(map, Head(cells)), Tail(cells))

\* new CellSet(...cells) of the Map-based class
CellMapOf(positions) == CellMapAddAll(<< >>, positions)

\* union(other) and intersection(other) of the Map-based class
CellMapUnion(map, other) == CellMapAddAll(CellMapAddAll(<< >>, map), other)
CellMapIntersection(map, other) == SelectSeq(map, LAMBDA k : k \in SeqRange(other))

\* values(), forEach and the iterator of the Map-based class: the Map's order
CellMapValues(map) == map

\* the cells the operations are called with
SetCells == { 0, 1, 2, 3, 31 }

\* the arrays of cells the sets are built from
PositionLists ==
    { << >>, << 0, 1, 2, 3 >>, << 3, 0 >>, << 32, 31, 80 >>, << 63, 64 >>, << 1, 1 >> }

SetAdd(cell) ==
    /\ Cardinality(cellSet.bitset \cup {cell}) <= MaxMembers
    /\ cellSet' = CellSetAdd(cellSet, cell)
    /\ cellMap' = CellMapAdd(cellMap, cell)
    /\ UNCHANGED boardVars

SetDelete(cell) ==
    /\ cellSet' = CellSetDelete(cellSet, cell)
    /\ cellMap' = CellMapDelete(cellMap, cell)
    /\ UNCHANGED boardVars

SetClear ==
    /\ cellSet' = CellSetClear(cellSet)
    /\ cellMap' = << >>
    /\ UNCHANGED boardVars

SetFromPositions(positions) ==
    /\ cellSet' = fromPositions(positions)
    /\ cellMap' = CellMapOf(positions)
    /\ UNCHANGED boardVars

SetUnion(positions) ==
    /\ Cardinality(cellSet.bitset \cup SeqRange(positions)) <= MaxMembers
    /\ cellSet' = CellSetUnion(cellSet, fromPositions(positions))
    /\ cellMap' = CellMapUnion(cellMap, CellMapOf(positions))
    /\ UNCHANGED boardVars

SetIntersection(positions) ==
    /\ cellSet' = CellSetIntersection(cellSet, fromPositions(positions))
    /\ cellMap' = CellMapIntersection(cellMap, CellMapOf(positions))
    /\ UNCHANGED boardVars

SetNext ==
    \/ \E cell \in SetCells : SetAdd(cell)
    \/ \E cell \in SetCells : SetDelete(cell)
    \/ SetClear
    \/ \E positions \in PositionLists : SetFromPositions(positions)
    \/ \E positions \in PositionLists : SetUnion(positions)
    \/ \E positions \in PositionLists : SetIntersection(positions)

SpecCellSet == ParseInit /\ [][SetNext]_vars

\* C19, as stated: the size of a bit-packed CellSet, the sum of popcnt32 over
\* its three 32-bit words, is the number of distinct cells in it.
C19_SizeIsPopcount == CellSetSize(cellSet) = Cardinality(cellSet.bitset)

\* C20, as stated: values() of a CellSet, which forEach and the iterator go
\* through, has each member once, in ascending order of the cell index, however
\* the set was built; for the bit-packed and for the Map-based class.
C20_AscendingIteration ==
    /\ CellSetValues(cellSet) = Ascending(cellSet.bitset)
    /\ CellMapValues(cellMap) = Ascending(SeqRange(cellMap))

-----------------------------------------------------------------------------
(* C21: what locked candidates may eliminate. *)

\* houses 1..9 are the blocks, 10..27 the rows and the columns
BlockHouses == 1 .. 9
LineHouses == 10 .. 27

\* a and b are a block and a line, one of each, that meet
BlockAndLine(a, b) ==
    /\ \/ a \in BlockHouses /\ b \in LineHouses
       \/ a \in LineHouses /\ b \in BlockHouses
    /\ Houses[a] \cap Houses[b] # {}

\* the pairs <<cell, digit>> a step took from the pencil marks
Eliminated(before, after) ==
    { <<c, d>> \in Cells \X Digits : d \in before[c].pencilMarks /\ d \notin after[c].pencilMarks }

\* C21: when LockedCandidatesType fires, every digit d it takes from a cell x has
\* a block and a line A and B, one of each, that meet, such that every cell of A
\* carrying d lies in B and x is a cell of B outside A; the same A, B and d for
\* all cells of the step.  No pencil mark is added and no value changes.
C21_LockedCandidatesLicensed ==
    [][(lastOp'.op = "solveOneStep" /\ lastOp'.fired = "LockedCandidatesType") =>
        /\ \E a \in 1 .. 27, b \in 1 .. 27, d \in Digits :
            /\ BlockAndLine(a, b)
            /\ CarriersIn(state, a, d) \subseteq Houses[b]
            /\ \A e \in Eliminated(state, state') :
                e[2] = d /\ e[1] \in Houses[b] \ Houses[a]
        /\ \A c \in Cells :
            /\ state'[c].pencilMarks \subseteq state[c].pencilMarks
            /\ state'[c].value = state[c].value
      ]_vars

\* C21, witness: locked candidates have fired and have taken a digit from a cell
\* while a cell of the same house that carries the digit kept it
C21_Witness ==
    /\ SolverStepRecorded
    /\ lastOp.fired = "LockedCandidatesType"
    /\ \E e \in Eliminated(PreviousState, state) :
        \E h \in 1 .. 27 : \E c \in Houses[h] :
            e[1] \in Houses[h] /\ e[2] \in state[c].pencilMarks

-----------------------------------------------------------------------------
(* C22, C23: the subsets. *)

\* the subsets of the cells of house h with 2, 3 or 4 cells
CellSubsets(h) == { T \in SUBSET Houses[h] : Cardinality(T) \in 2 .. 4 }

\* the union of the solver's candidate sets of the cells of T
CandidateUnion(cfc, T) == UNION { CandidatesOf(cfc, c) : c \in T }

\* the cells other than those of T of the houses that hold all of T
HousesAround(T) == UNION { Houses[o] : o \in { o \in 1 .. 27 : T \subseteq Houses[o] } } \ T

\* T is a naked subset as the claim has it: its cells are empty, each has a
\* candidate, and together they have as many candidates as there are cells
NakedSubsetOfClaim(cells, cfc, T) ==
    /\ \A c \in T : ~HasValue(cells[c]) /\ CandidatesOf(cfc, c) # {}
    /\ Cardinality(CandidateUnion(cfc, T)) = Cardinality(T)

\* T is a naked subset as the code has it: its cells have an entry in
\* candidatesForCell and together they have at most as many candidates as there
\* are cells
NakedSubsetOfCode(cfc, T) ==
    /\ T \subseteq DOMAIN cfc
    /\ Cardinality(CandidateUnion(cfc, T)) <= Cardinality(T)

\* what a step that fired nakedSubset on T took: only digits of T's candidates,
\* only from cells around T, and nothing else of the board changed
NakedSubsetStep(T) ==
    /\ \A e \in Eliminated(state, state') :
        /\ e[2] \in CandidateUnion(candidatesForCell, T)
        /\ e[1] \in HousesAround(T)
    /\ \A c \in Cells :
        /\ state'[c].pencilMarks \subseteq state[c].pencilMarks
        /\ state'[c].value = state[c].value

\* C22, as stated: when nakedSubset fires there are n cells, n in 2..4, of one
\* house, all empty and with candidates, whose candidate sets have a union of
\* exactly n digits, such that the step removes only those digits, only from
\* other cells of that house or of another house holding the n cells.
C22_NakedSubsetExact ==
    [][(lastOp'.op = "solveOneStep" /\ lastOp'.fired = "nakedSubset") =>
        \E h \in 1 .. 27 : \E T \in CellSubsets(h) :
            /\ NakedSubsetOfClaim(state, candidatesForCell, T)
            /\ NakedSubsetStep(T)
      ]_vars

-----------------------------------------------------------------------------
(* C23: the hidden subset. *)

\* the sets of 2, 3 or 4 digits
DigitSubsets == { D \in SUBSET Digits : Cardinality(D) \in 2 .. 4 }

\* the cells of house h that the solver has as possible cells of a digit of D
HiddenCells(pcc, h, D) == UNION { PossibleCells(pcc, d) \cap Houses[h] : d \in D }

\* the step is accounted for by the digits D in house h: each has a possible
\* cell in h, together they have at most as many cells as there are digits,
\* only other digits leave those cells and no other cell changes
HiddenSubsetStep(h, D) ==
    LET U == HiddenCells(possibleCellsForCandidate, h, D)
    IN  /\ \A d \in D : PossibleCells(possibleCellsForCandidate, d) \cap Houses[h] # {}
        /\ Cardinality(U) <= Cardinality(D)
        /\ \A e \in Eliminated(state, state') : e[1] \in U /\ e[2] \notin D
        /\ \A c \in Cells \ U : state'[c] = state[c]
        /\ \A c \in U :
            /\ state'[c].pencilMarks \subseteq state[c].pencilMarks
            /\ state'[c].value = state[c].value

\* C23: a step on which hiddenSubset fires is on n digits (n in 2..4) of one
\* house, each with at least one candidate cell in the house and all their
\* candidate cells in the house being at most n cells; it removes from those
\* cells only digits outside the n digits and changes no other cell
C23_HiddenSubsetExact ==
    [][(lastOp'.op = "solveOneStep" /\ lastOp'.fired = "hiddenSubset") =>
        \E h \in 1 .. 27 : \E D \in DigitSubsets : HiddenSubsetStep(h, D)
      ]_vars

\* hiddenSubset has fired and has taken a digit from a cell that is still empty
C23_Witness ==
    /\ SolverStepRecorded
    /\ lastOp.fired = "hiddenSubset"
    /\ \E e \in Eliminated(PreviousState, state) : ~HasValue(state[e[1]])

-----------------------------------------------------------------------------
(* C24: the finned fish. *)

RowHouses == 10 .. 18
ColumnHouses == 19 .. 27

\* the cells of the houses hs
CellsOfHouses(hs) == UNION { Houses[h] : h \in hs }

\* the cells that lose d to the fish of base houses `base` and cover houses
\* `cover`: they carry d, lie in a cover house and in no base house, and share
\* a house with every fin, a fin being a cell of a base house that carries d
\* and lies in no cover house
FinnedElimination(cells, d, base, cover) ==
    LET carriers == { c \in Cells : d \in cells[c].pencilMarks }
        fins == (carriers \cap CellsOfHouses(base)) \ CellsOfHouses(cover)
    IN  { x \in (carriers \cap CellsOfHouses(cover)) \ CellsOfHouses(base) :
            \A fin \in fins : x \in HousesUnionOfCell[fin] }

\* the (base, cover) pairs of n columns and n rows, either way round
LineFishPairs(n) ==
    LET cs == Combinations(ColumnHouses, n)
        rs == Combinations(RowHouses, n)
    IN  (cs \X rs) \cup (rs \X cs)

\* the (base, cover) pairs of the complex search: n columns and blocks against
\* n rows, or n rows and blocks against n columns, either way round
ComplexFishPairs(n) ==
    LET cbs == Combinations(ColumnHouses \cup BlockHouses, n)
        rbs == Combinations(RowHouses \cup BlockHouses, n)
        cs == Combinations(ColumnHouses, n)
        rs == Combinations(RowHouses, n)
    IN  (cbs \X rs) \cup (rs \X cbs) \cup (rbs \X cs) \cup (cs \X rbs)

\* the step took d, and nothing else, from exactly the cells of a fish
FinnedFishStep(pairs) ==
    \E d \in { e[2] : e \in Eliminated(state, state') } :
        \E pair \in pairs :
            Eliminated(state, state') =
                { <<x, d>> : x \in FinnedElimination(state, d, pair[1], pair[2]) }

\* C24: a step on which the finned fish search fires takes a digit d from a
\* cell x exactly when x carries d, lies in a cover house and in no base house
\* and shares a row, column or box with every fin; with no fin these are the
\* covered cells outside the base houses
C24_FinnedFishEliminates ==
    [][/\ (lastOp'.op = "solveOneStep" /\ lastOp'.fired = "finnedFish") =>
            \E n \in 2 .. 4 : FinnedFishStep(LineFishPairs(n))
       /\ (lastOp'.op = "solveOneStep" /\ lastOp'.fired = "complexFish") =>
            \E n \in 2 .. 4 : FinnedFishStep(ComplexFishPairs(n))
      ]_vars

\* finnedFish has fired and a cell has lost a digit to it
C24_Witness ==
    /\ SolverStepRecorded
    /\ lastOp.fired = "finnedFish"
    /\ Eliminated(PreviousState, state) # {}

-----------------------------------------------------------------------------
(* C25: the base and cover sets of the fish searches. *)

\* the double loops of a fish technique: the line-ups of the outer and the
\* inner loop, whether only houses of at most `size` cells enter, and whether
\* the outer sub-arrays are tested for overlap
FishLoops(technique) ==
    IF technique = "basicFish"
    THEN { [outer |-> ColumnsLineup, inner |-> RowsLineup, limit |-> TRUE, disjoint |-> FALSE] }
    ELSE IF technique = "finnedFish"
    THEN { [outer |-> ColumnsLineup, inner |-> RowsLineup, limit |-> FALSE, disjoint |-> FALSE] }
    ELSE { [outer |-> ColumnsBlocksLineup, inner |-> RowsLineup, limit |-> FALSE, disjoint |-> TRUE],
           [outer |-> RowsBlocksLineup, inner |-> ColumnsLineup, limit |-> FALSE, disjoint |-> TRUE] }

FishTechniques == { "basicFish", "finnedFish", "complexFish" }

\* the houses at positions A of a line-up share no cell
HousesDisjoint(lineup, A) ==
    \A p, q \in A : p # q => Houses[lineup[p]] \cap Houses[lineup[q]] = {}

\* the houses at positions A of a line-up share no cell of P
CandidateCellsDisjoint(P, lineup, A) ==
    \A p, q \in A : p # q => (P \cap Houses[lineup[p]]) \cap Houses[lineup[q]] = {}

\* every sub-array a loop of the technique examines for digit d has `size`
\* houses, and they satisfy Disjoint
FishSetsOfSize(technique, d, size) ==
    LET P == PossibleCells(possibleCellsForCandidate, d)
    IN  UNION { { <<l.outer, A>> : A \in FishOuterSets(P, size, l.outer, l.limit, l.disjoint) } :
                    l \in FishLoops(technique) }
        \cup
        UNION { { <<l.inner, B>> : B \in FishInnerSets(P, size, l.inner, l.limit) } :
                    l \in FishLoops(technique) }

\* the digits that have a candidate cell in the solver's index
FishDigits == { d \in Digits : PossibleCells(possibleCellsForCandidate, d) # {} }

\* a fish technique has fired and what it took lies in the cells of a pair of
\* sub-arrays that its loops examine
FishStepFromExaminedPair ==
    \E d \in { e[2] : e \in Eliminated(state, state') } : \E size \in 2 .. 4 :
        \E l \in FishLoops(lastOp'.fired) :
            LET P == PossibleCells(possibleCellsForCandidate, d)
            IN  \E A \in FishOuterSets(P, size, l.outer, l.limit, l.disjoint) :
                    \E B \in FishInnerSets(P, size, l.inner, l.limit) :
                        /\ CandidateCellsDisjoint(P, l.outer, A)
                        /\ CandidateCellsDisjoint(P, l.inner, B)
                        /\ \A e \in Eliminated(state, state') :
                                e[2] = d /\ e[1] \in FishCells(P, l.outer, A) \cup FishCells(P, l.inner, B)

-----------------------------------------------------------------------------
(* C26: the full house. *)

\* the empty cells of house h
EmptyCellsOf(cells, h) == { c \in Houses[h] : ~HasValue(cells[c]) }

\* the houses with exactly one empty cell
FullHouses(cells) == { h \in 1 .. 27 : Cardinality(EmptyCellsOf(cells, h)) = 1 }

\* the digits no cell of house h holds
MissingDigits(cells, h) == { v \in Digits : \A c \in Houses[h] : cells[c].value # << v >> }

\* the step has put into the one empty cell of house h the one digit the house
\* lacks, 45 minus the sum of the other eight, and no peer of the cell has
\* the digit as a candidate afterwards
FullHouseStep(h) ==
    \E c \in EmptyCellsOf(state, h) : \E v \in MissingDigits(state, h) :
        /\ MissingDigits(state, h) = { v }
        /\ v = 45 - SumOf([o \in Cells |-> ValueOrZero(state[o])], Houses[h])
        /\ state'[c].value = << v >>
        /\ \A p \in Peers[c] :
            /\ v \notin state'[p].pencilMarks
            /\ v \notin CandidatesOf(candidatesForCell', p)

\* C26: a solver step fires fullHouse exactly when some house has exactly one
\* empty cell, and it then places in that cell the one digit of 1..9 that no
\* other cell of the house holds (45 minus the sum of the others) and removes
\* the digit from the candidates of all the cell's peers
C26_FullHouse ==
    [][lastOp'.op = "solveOneStep" =>
        /\ lastOp'.fired = "fullHouse" <=> FullHouses(state) # {}
        /\ lastOp'.fired = "fullHouse" => \E h \in FullHouses(state) : FullHouseStep(h)
      ]_vars

-----------------------------------------------------------------------------
(* C27: repeated solveOneStep terminates. *)

\* whether the session can take another call: fillPencilMarks and solveOneStep
\* are total, so a call is enabled as long as the bound on the calls allows it
SessionEnabled == lastOp.n < MaxSteps

\* the session with the driver's loop going on: weak fairness of SolveNext,
\* written out with SessionEnabled for ENABLED <<SolveNext>>_vars and, every
\* step of the session that changes vars being a SolveNext step, with
\* <<TRUE>>_vars for <<SolveNext>>_vars.  The regression test's and the pad's
\* loops call solveOneStep again as long as the board changes.
SpecSolveFair ==
    /\ SolveInit
    /\ [][SolveNext]_vars
    /\ ([]<>(~SessionEnabled) \/ []<><<TRUE>>_vars)

\* from before to after no candidate is added and no value is cleared or replaced
NothingComesBack(before, after) ==
    \A c \in Cells :
        /\ after[c].pencilMarks \subseteq before[c].pencilMarks
        /\ HasValue(before[c]) => after[c].value = before[c].value

\* from before to after an empty cell is filled or a candidate removed
SomethingGoes(before, after) ==
    \E c \in Cells :
        \/ ~HasValue(before[c]) /\ HasValue(after[c])
        \/ after[c].pencilMarks # before[c].pencilMarks /\ after[c].pencilMarks \subseteq before[c].pencilMarks

\* a call of solveOneStep that changes the board fills an empty cell or removes
\* a candidate, and adds no candidate and clears no value
StepMakesProgress ==
    [][(lastOp'.op = "solveOneStep" /\ state' # state) =>
            NothingComesBack(state, state') /\ SomethingGoes(state, state')
      ]_vars

\* a call of solveOneStep has changed nothing
NoChangeCall == lastOp.op = "solveOneStep" /\ ~lastOp.changed /\ lastOp.fired = "none"

\* C27: every call of solveOneStep that changes the board fills an empty cell
\* or removes at least one candidate, never adds a candidate and never clears
\* a value, and repeated calls come to a call that changes nothing
C27_SolvingTerminates == StepMakesProgress /\ <>NoChangeCall

\* the board has been changed by steps and a call has then changed nothing
C27_Witness ==
    /\ NoChangeCall
    /\ currentStateIndex >= 2
    /\ \E c \in Cells : HasValue(state[c]) /\ ~HasValue(stateHistory[1][c])

-----------------------------------------------------------------------------
(* C28, C29: the history. *)

\* the index is within the history and the board is the history's entry there
HistoryInRange ==
    /\ 0 <= currentStateIndex
    /\ currentStateIndex < Len(stateHistory)
    /\ state = stateHistory[currentStateIndex + 1]

\* the index an undo or a redo of lastOp'.count asks for
UndoTarget == currentStateIndex - lastOp'.count
RedoTarget == currentStateIndex + lastOp'.count

\* an undo or redo whose target is outside the history changes nothing, and
\* one whose target is inside moves to it
UndoRedoStep ==
    /\ lastOp'.op = "undo" =>
        IF UndoTarget < 0 THEN UNCHANGED <<state, stateHistory, currentStateIndex>>
        ELSE currentStateIndex' = UndoTarget /\ UNCHANGED stateHistory
    /\ lastOp'.op = "redo" =>
        IF RedoTarget >= Len(stateHistory) THEN UNCHANGED <<state, stateHistory, currentStateIndex>>
        ELSE currentStateIndex' = RedoTarget /\ UNCHANGED stateHistory

Recorded ==
    /\ lastOp'.op \notin { "undo", "redo" }
    /\ lastOp'.changed

\* the last operation recorded a new state
JustRecorded ==
    /\ lastOp.op \notin { "undo", "redo", "fromString" }
    /\ lastOp.changed

\* the number of undone states: the entries of the history after the current one
Undone == Len(stateHistory) - (currentStateIndex + 1)

\* C29: an update that changes the state discards the undone states: the
\* history then ends at the new state, after the entries up to the one that
\* was current, a redo made next changes nothing and an undo made next returns
\* to the state that was current before the update; an undo followed by a redo
\* with the same count restores the state
C29_UpdateDiscardsUndone ==
    [][/\ Recorded =>
            /\ stateHistory' = Append(SubSeq(stateHistory, 1, currentStateIndex + 1), state')
            /\ currentStateIndex' = Len(stateHistory') - 1
            /\ stateHistory'[currentStateIndex'] = state
       /\ (JustRecorded /\ lastOp'.op = "redo") =>
            UNCHANGED <<state, stateHistory, currentStateIndex>>
       /\ (JustRecorded /\ lastOp'.op = "undo" /\ lastOp'.count = 1) =>
            state' = stateHistory[currentStateIndex]
       /\ (lastOp.op = "undo" /\ lastOp.changed /\ lastOp'.op = "redo"
                /\ lastOp'.count = lastOp.count) =>
            /\ currentStateIndex' = currentStateIndex + lastOp.count
            /\ state' = stateHistory[currentStateIndex + lastOp.count + 1]
      ]_vars

\* fillPencilMarks was undone and a new state recorded over it (the solver has
\* candidates for an empty cell and no entry of the history has pencil marks);
\* the redo made next was refused
C29_Witness ==
    /\ lastOp.op = "redo"
    /\ ~lastOp.changed
    /\ \E c \in DOMAIN candidatesForCell : candidatesForCell[c] # {} /\ ~HasValue(state[c])
    /\ Len(stateHistory) = 2
    /\ currentStateIndex = 1
    /\ state # stateHistory[1]
    /\ \A c \in Cells : state[c].pencilMarks = {}

-----------------------------------------------------------------------------
(* C30: the solver after an undo or a redo of a solver step *)

\* the step taken is an undo or a redo that moved the current state, made right
\* after a solveOneStep in which a technique fired and left the two indices in
\* agreement with the board
SolverStepTakenBack ==
    /\ SolverStepRecorded
    /\ IndicesInSync(state, candidatesForCell, possibleCellsForCandidate)
    /\ lastOp'.op \in { "undo", "redo" }
    /\ lastOp'.changed

\* C30, as stated: after an undo (or redo) of a solver step, candidatesForCell
\* and possibleCellsForCandidate agree with the pencil marks and values of the
\* restored board, which is what the next solveOneStep reads.
C30_UndoRestoresIndices ==
    [][SolverStepTakenBack =>
        IndicesInSync(state', candidatesForCell', possibleCellsForCandidate')]_vars

====
